---- MODULE Spec2Model ----
(***************************************************************************)
(* certscan: the protocol dispatcher and scan scheduler of                 *)
(* internal/scanner/scanner.go (ScanAndSendWithProtocol and the handlers   *)
(* it dispatches to), as a state machine.                                  *)
(*                                                                         *)
(* One behaviour is one call ScanAndSendWithProtocol(ip, hostname, ports,  *)
(* protocol) under one configuration (shared.Config).  The scheduler       *)
(* goroutine and the port goroutines take steps; a step ends where the     *)
(* code blocks (channel send, network dial, network read, HTTP round       *)
(* trip, WaitGroup wait).  That is Spec (FairSpec with fairness).          *)
(*                                                                         *)
(* UnitSpec is the wildcard matcher and the exclusion filter called on     *)
(* their own, one function call per behaviour, on arguments that a scan    *)
(* does not reach (unparsable bytes, many patterns).                       *)
(*                                                                         *)
(* CycleSpec is the loop of cmd/main.go over include_list that makes the   *)
(* calls into the scanner.                                                 *)
(*                                                                         *)
(* LegacySpec is ScanAndSend, which makes one call per port.               *)
(***************************************************************************)
EXTENDS Integers, Sequences, FiniteSets, TLC

(***************************************************************************)
(* Bounds of the model.                                                    *)
(***************************************************************************)
\* longest port list of a call with several ports
MaxPorts == 2
\* largest configured concurrency limit
MaxLimit == 2
\* most lines a peer sends in answer to EHLO
MaxEhloLines == 2

VARIABLES
    Config,          \* shared.Config: ConcurrencyLimit, Token, ExcludeCerts
    ports,           \* argument ports []int
    protocol,        \* argument protocol string
    mainPc,          \* position of the calling goroutine / the process
    nextPort,        \* index of the port the range loop is at
    semCap,          \* cap(sem)
    sem,             \* len(sem): admission slots held
    wg,              \* the WaitGroup counter
    results,         \* var results []ScanResult of ScanAndSendWithProtocol
    taskPc,          \* position of each port goroutine
    proto,           \* each goroutine's local proto
    handlerResults,  \* each handler's local results / result
    lines,           \* scanSMTPStartTLS: the EHLO reply lines read so far
    attempts,        \* history: the probes each handler has made, with their outcome
    conn,            \* history: what scanSMTPStartTLS has written to and read from conn
    taskPort,        \* each goroutine's parameter port
    invoked,         \* history: how often each goroutine has entered the dispatch
    sinkCalls,       \* history: what each goroutine's calls of sendToWebhook ended with
    fn,              \* a function called on its own: its name
    args,            \* its arguments
    rets,            \* what it has returned, call after call
    cfg,             \* cmd/main.go: the loaded configuration
    daemonMode,      \* the flag -daemon
    cyclePc,         \* position of main in its scan cycle
    entryAt,         \* index of the include_list entry the range loop is at
    ips,             \* the addresses the loop main is in has yet to go through
    scanned,         \* scanned := make(map[string]bool), the keys set to true
    scans,           \* history: the calls main has made into the scanner in this cycle
    legacyPorts,     \* ScanAndSend: argument ports []int
    legacyAt,        \* ScanAndSend: index of the port its range loop is at
    legacyCalls      \* history: the calls ScanAndSend has made, and whether the
                     \* goroutines of the call before had all ended

\* the frame of a function called on its own
unitVars == <<fn, args, rets>>
\* the state of a call of ScanAndSendWithProtocol
scanVars == <<Config, ports, protocol, mainPc, nextPort, semCap, sem, wg, results,
              taskPc, proto, handlerResults, lines, attempts, conn,
              taskPort, invoked, sinkCalls>>

\* the state of main's scan cycle
cycleVars == <<cfg, daemonMode, cyclePc, entryAt, ips, scanned, scans>>

\* the frame of ScanAndSend
legacyVars == <<legacyPorts, legacyAt, legacyCalls>>

vars == <<scanVars, unitVars, cycleVars, legacyVars>>

\* ScanAndSend is not running
NoLegacy ==
    /\ legacyPorts = <<>>
    /\ legacyAt = 1
    /\ legacyCalls = <<>>

\* main is not running a scan cycle
NoCycle ==
    /\ cfg = [IncludeList |-> <<>>, ExcludeList |-> <<>>, Ports |-> <<>>,
              EnableIPv4Discovery |-> FALSE, EnableIPv6Discovery |-> FALSE]
    /\ daemonMode = FALSE
    /\ cyclePc = "idle"
    /\ entryAt = 1
    /\ ips = <<>>
    /\ scanned = {}
    /\ scans = <<>>

(***************************************************************************)
(* Strings (package strings of the Go standard library).                   *)
(***************************************************************************)
\* unicode.ToLower on the letters A-Z; every other character maps to itself
LowerTable ==
    [A |-> "a", B |-> "b", C |-> "c", D |-> "d", E |-> "e", F |-> "f",
     G |-> "g", H |-> "h", I |-> "i", J |-> "j", K |-> "k", L |-> "l",
     M |-> "m", N |-> "n", O |-> "o", P |-> "p", Q |-> "q", R |-> "r",
     S |-> "s", T |-> "t", U |-> "u", V |-> "v", W |-> "w", X |-> "x",
     Y |-> "y", Z |-> "z"]

\* unicode.ToUpper on the letters a-z; every other character maps to itself
UpperTable ==
    [a |-> "A", b |-> "B", c |-> "C", d |-> "D", e |-> "E", f |-> "F",
     g |-> "G", h |-> "H", i |-> "I", j |-> "J", k |-> "K", l |-> "L",
     m |-> "M", n |-> "N", o |-> "O", p |-> "P", q |-> "Q", r |-> "R",
     s |-> "S", t |-> "T", u |-> "U", v |-> "V", w |-> "W", x |-> "X",
     y |-> "Y", z |-> "Z"]

RECURSIVE MapString(_, _)
MapString(s, table) ==
    IF Len(s) = 0 THEN ""
    ELSE LET c == SubSeq(s, 1, 1)
         IN  (IF c \in DOMAIN table THEN table[c] ELSE c)
             \o MapString(SubSeq(s, 2, Len(s)), table)

ToLower(s) == MapString(s, LowerTable)
ToUpper(s) == MapString(s, UpperTable)

HasPrefix(s, p) == Len(s) >= Len(p) /\ SubSeq(s, 1, Len(p)) = p
HasSuffix(s, p) == Len(s) >= Len(p) /\ SubSeq(s, Len(s) - Len(p) + 1, Len(s)) = p
StrContains(s, p) ==
    \E i \in 1..(Len(s) - Len(p) + 1) : SubSeq(s, i, i + Len(p) - 1) = p

(***************************************************************************)
(* Certificates.  A DER certificate is a short byte string; the peers of   *)
(* the model present chains over two certificates, and X is a byte string  *)
(* that is no certificate.                                                 *)
(***************************************************************************)
\* x509.ParseCertificate: issuer DN and subject CN of the DER strings that parse
ParsedCertificates ==
    [A |-> [Issuer |-> "CN=Good CA", CN |-> "a.example.com"],
     E |-> [Issuer |-> "CN=Evil CA", CN |-> "evil.example.com"]]

\* base64.StdEncoding.EncodeToString on the DER strings of the model
Base64Table == [A |-> "QQ==", E |-> "RQ==", X |-> "WA=="]

\* variant: base64.RawStdEncoding, which leaves the padding out
EncodeToStringRaw(der) == SubSeq(Base64Table[der], 1, 2)

EncodeToString(der) == Base64Table[der]

\* base64.StdEncoding.DecodeString: <<der, ok>>
DecodeString(b64) ==
    IF \E d \in DOMAIN Base64Table : Base64Table[d] = b64
    THEN <<CHOOSE d \in DOMAIN Base64Table : Base64Table[d] = b64, TRUE>>
    ELSE <<"", FALSE>>

\* state.PeerCertificates of a completed handshake: the chains the peers that
\* have certificates present
PeerChains == {<<"A", "E", "A">>, <<"E">>}

\* shared.Config.ExcludeCerts: the rule lists of the model
RuleLists == {<<>>, <<[Issuer |-> "*Evil*", CN |-> ""]>>}

(***************************************************************************)
(* Wildcard matcher and exclusion filter.                                  *)
(***************************************************************************)
\* variant: the matcher without strings.ToLower
matchWildcardCaseSensitive(pattern, s) ==
    IF pattern = "" THEN FALSE
    ELSE IF pattern = "*" THEN TRUE
    ELSE IF HasPrefix(pattern, "*") /\ HasSuffix(pattern, "*")
         THEN StrContains(s, SubSeq(pattern, 2, Len(pattern) - 1))
    ELSE IF HasPrefix(pattern, "*") THEN HasSuffix(s, SubSeq(pattern, 2, Len(pattern)))
    ELSE IF HasSuffix(pattern, "*") THEN HasPrefix(s, SubSeq(pattern, 1, Len(pattern) - 1))
    ELSE s = pattern

\* variant: a star inside the pattern stands for any run of characters
matchWildcardInnerStar(pattern, s) ==
    LET p == ToLower(pattern)
        l == ToLower(s)
        inner == {i \in 2..(Len(p) - 1) : SubSeq(p, i, i) = "*"}
    IN  IF pattern = "" THEN FALSE
        ELSE IF p = "*" THEN TRUE
        ELSE IF HasPrefix(p, "*") /\ HasSuffix(p, "*")
             THEN StrContains(l, SubSeq(p, 2, Len(p) - 1))
        ELSE IF HasPrefix(p, "*") THEN HasSuffix(l, SubSeq(p, 2, Len(p)))
        ELSE IF HasSuffix(p, "*") THEN HasPrefix(l, SubSeq(p, 1, Len(p) - 1))
        ELSE IF inner # {}
             THEN \E i \in inner :
                      /\ Len(l) >= Len(p) - 1
                      /\ HasPrefix(l, SubSeq(p, 1, i - 1))
                      /\ HasSuffix(l, SubSeq(p, i + 1, Len(p)))
        ELSE l = p

matchWildcard(pattern, s) ==
    IF pattern = "" THEN FALSE
    ELSE LET p == ToLower(pattern)
             l == ToLower(s)
         IN  IF p = "*" THEN TRUE
             ELSE IF HasPrefix(p, "*") /\ HasSuffix(p, "*")
                  THEN StrContains(l, SubSeq(p, 2, Len(p) - 1))
             ELSE IF HasPrefix(p, "*") THEN HasSuffix(l, SubSeq(p, 2, Len(p)))
             ELSE IF HasSuffix(p, "*") THEN HasPrefix(l, SubSeq(p, 1, Len(p) - 1))
             ELSE l = p

\* variant: only the issuer pattern of a rule is looked at
isCertExcludedIssuerOnly(cert, rules) ==
    \E i \in 1..Len(rules) :
        rules[i].Issuer # "" /\ matchWildcard(rules[i].Issuer, cert.Issuer)

isCertExcluded(cert, rules) ==
    \E i \in 1..Len(rules) :
        \/ rules[i].Issuer # "" /\ matchWildcard(rules[i].Issuer, cert.Issuer)
        \/ rules[i].CN # "" /\ matchWildcard(rules[i].CN, cert.CN)

\* variant: bytes that do not parse are passed on
RECURSIVE filterCertsKeepsUnparsable(_, _)
filterCertsKeepsUnparsable(derCerts, rules) ==
    IF derCerts = <<>> THEN <<>>
    ELSE LET der == Head(derCerts)
             rest == filterCertsKeepsUnparsable(Tail(derCerts), rules)
         IN  IF der \notin DOMAIN ParsedCertificates THEN <<EncodeToString(der)>> \o rest
             ELSE IF isCertExcluded(ParsedCertificates[der], rules) THEN rest
             ELSE <<EncodeToString(der)>> \o rest

RECURSIVE filterCerts(_, _)
filterCerts(derCerts, rules) ==
    IF derCerts = <<>> THEN <<>>
    ELSE LET der == Head(derCerts)
             rest == filterCerts(Tail(derCerts), rules)
         IN  IF der \notin DOMAIN ParsedCertificates THEN rest
             ELSE IF isCertExcluded(ParsedCertificates[der], rules) THEN rest
             ELSE <<EncodeToString(der)>> \o rest

RECURSIVE decodeBase64Certs(_)
decodeBase64Certs(b64certs) ==
    IF b64certs = <<>> THEN <<>>
    ELSE LET d == DecodeString(Head(b64certs))
         IN  (IF d[2] THEN <<d[1]>> ELSE <<>>) \o decodeBase64Certs(Tail(b64certs))

\* the loop of tlsHandshakeAndCollectWithTimeout and scanSMTPStartTLS over
\* state.PeerCertificates
RECURSIVE encodeChain(_)
encodeChain(chain) ==
    IF chain = <<>> THEN <<>>
    ELSE <<EncodeToString(Head(chain))>> \o encodeChain(Tail(chain))

(***************************************************************************)
(* Protocol dispatcher: tables of ScanAndSendWithProtocol.                 *)
(***************************************************************************)
AllowedProtocols == {"http1", "h2", "h3", "smtp", "ldap", "imap", "pop3", "custom"}

webPorts == {443, 8443, 4433, 5001, 10443}
smtpPorts == {25, 465, 587}

\* protocolHandlers: the handler registered under each protocol name
protocolHandlers ==
    [smtp   |-> "smtpProtocolHandler",
     imap   |-> "notImplemented",
     pop3   |-> "notImplemented",
     ldap   |-> "notImplemented",
     custom |-> "notImplemented",
     http1  |-> "defaultTLSHandler",
     h2     |-> "defaultTLSHandler",
     h3     |-> "defaultTLSHandler"]

\* variant: the SMTP ports of the older dispatcher, which count 2525 among them
effectiveProtocolOlderPorts(protocolArg, port) ==
    IF protocolArg = "" /\ port \in webPorts THEN "http1"
    ELSE IF port \in smtpPorts \cup {2525} THEN "smtp"
    ELSE protocolArg

\* variant: an empty protocol becomes http1 on every port that is no SMTP port
effectiveProtocolDefaultsToTLS(protocolArg, port) ==
    IF port \in smtpPorts THEN "smtp"
    ELSE IF protocolArg = "" THEN "http1"
    ELSE protocolArg

\* the goroutine's proto after the if / else-if that opens it
effectiveProtocol(protocolArg, port) ==
    IF protocolArg = "" /\ port \in webPorts THEN "http1"
    ELSE IF port \in smtpPorts THEN "smtp"
    ELSE protocolArg

\* proto != "" && !shared.Contains(AllowedProtocols, proto)
protocolRejected(p) == p # "" /\ p \notin AllowedProtocols

\* variant: the fallback to the default TLS scan that the log line announces
noHandlerFallsBack == "ecdsa_dial"

\* where a goroutine goes when protocolHandlers has no entry for its proto:
\* the else branch logs and the function literal ends
noHandlerNext == "release"

\* variant: a handler that returns false is followed by the default TLS scan
handlerReturnedFallsBack(handled) == IF handled THEN "release" ELSE "ecdsa_dial"

\* where a goroutine goes when its handler returned: handled or not, the
\* function literal ends
handlerReturnedNext(handled) == "release"

\* the first blocking step of the handler registered for proto p; the stubs
\* log and return false without one
handlerEntry(p) ==
    CASE protocolHandlers[p] = "defaultTLSHandler" -> "ecdsa_dial"
      [] protocolHandlers[p] = "smtpProtocolHandler" -> "smtp_dial"
      [] protocolHandlers[p] = "notImplemented" -> handlerReturnedNext(FALSE)

\* the goroutine from proto := protocol to its first blocking step or its end
dispatchNext(protocolArg, port) ==
    LET p == effectiveProtocol(protocolArg, port)
    IN  IF protocolRejected(p) THEN "release"
        ELSE IF p \in DOMAIN protocolHandlers THEN handlerEntry(p)
        ELSE noHandlerNext

(***************************************************************************)
(* Inputs of the model.                                                    *)
(***************************************************************************)
Protocols == AllowedProtocols \cup {"", "ftp"}
AllPorts == webPorts \cup smtpPorts \cup {993, 2525}

\* calls with several ports: an SMTP port and a web port, under no protocol, a
\* web protocol, smtp, a protocol without implementation and an unknown one
SchedulerPorts == {25, 443}
SchedulerProtocols == {"", "http1", "smtp", "imap", "ftp"}
SchedulerCalls ==
    (UNION {[1..n -> SchedulerPorts] : n \in 0..MaxPorts}) \X SchedulerProtocols

\* calls with one port: every port the dispatcher names and two it does not,
\* under every protocol
SinglePortCalls == {<<p>> : p \in AllPorts} \X Protocols

Calls == SchedulerCalls \cup SinglePortCalls

Tokens == {"", "token"}

Tasks == 1..Len(ports)

(***************************************************************************)
(* Peers.  The peers on the ports of the calls with several ports behave   *)
(* in few ways; the peers on the other ports in all the ways of the model. *)
(***************************************************************************)
\* state.PeerCertificates of a completed handshake with the peer on a port
PeerChainsOf(port) ==
    IF port \in SchedulerPorts THEN {<<"A", "E", "A">>} ELSE PeerChains

\* the line a peer greets with; scanSMTPStartTLS does not look at it
Greeting == "220 mail.example.com ESMTP"

\* lines a peer may send in answer to EHLO
EhloLines == {"250-PIPELINING", "250-STARTTLS", "250 OK", "250 starttls",
              "502 STARTTLS refused"}
EhloLinesOf(port) ==
    IF port \in SchedulerPorts THEN {"250 STARTTLS"} ELSE EhloLines

\* lines a peer may send in answer to STARTTLS
StartTLSReplies == {"220 Ready", "454 TLS not available"}
StartTLSRepliesOf(port) ==
    IF port \in SchedulerPorts THEN {"220 Ready"} ELSE StartTLSReplies

(***************************************************************************)
(* Positions of a port goroutine.                                          *)
(***************************************************************************)
\* positions in which the goroutine waits for bytes of the peer on a
\* connection that has no deadline (no SetDeadline or SetReadDeadline on conn,
\* tlsConn or uconn): the step is taken when the peer sends or closes, and
\* never if the peer does neither
ReadPcs == {"ecdsa_hs", "rsa_hs", "smtp_greeting", "smtp_ehlo", "smtp_starttls", "smtp_hs"}
\* positions in which the goroutine waits for net dial, which has a timeout
DialPcs == {"ecdsa_dial", "rsa_dial", "smtp_dial"}
\* positions inside a handler
HandlerPcs == ReadPcs \cup DialPcs \cup {"webhook"}
\* positions between go func and the deferred <-sem
SlotPcs == HandlerPcs \cup {"run", "release"}

Alive == mainPc \notin {"panic", "exited"}

Init ==
    /\ Config \in [ConcurrencyLimit : -1..MaxLimit, Token : Tokens, ExcludeCerts : RuleLists]
    /\ \E call \in Calls : ports = call[1] /\ protocol = call[2]
    /\ mainPc = "start"
    /\ nextPort = 1
    /\ semCap = 0
    /\ sem = 0
    /\ wg = 0
    /\ results = <<>>
    /\ taskPc = [t \in Tasks |-> "idle"]
    /\ proto = [t \in Tasks |-> ""]
    /\ handlerResults = [t \in Tasks |-> <<>>]
    /\ lines = [t \in Tasks |-> <<>>]
    /\ attempts = [t \in Tasks |-> <<>>]
    /\ conn = [t \in Tasks |-> <<>>]
    /\ taskPort = [t \in Tasks |-> 0]
    /\ invoked = [t \in Tasks |-> 0]
    /\ sinkCalls = [t \in Tasks |-> <<>>]
    /\ NoCycle
    /\ NoLegacy
    /\ fn = ""
    /\ args = <<>>
    /\ rets = <<>>

(***************************************************************************)
(* Scan scheduler: the calling goroutine of ScanAndSendWithProtocol.       *)
(***************************************************************************)
\* make(chan struct{}, n) panics for a negative n
makeChanPanics(n) == n < 0

\* variant: the send proceeds with the buffer full
canSendOneOver(len, cap) == len <= cap

\* variant: the send is never held back by a full buffer
canSendUngated(len, cap) == TRUE

\* sem <- struct{}{} proceeds when the buffer has room; no goroutine ever waits
\* to receive from sem, so a channel without buffer never takes a send
canSend(len, cap) == len < cap

\* variant: the deferred receive is missing
semReceiveMissing(len) == len

\* <-sem of the deferred function
semReceive(len) == len - 1

\* variant: the call does not wait for its goroutines
waitReturnsAtOnce(counter) == TRUE

\* wg.Wait() returns
waitReturns(counter) == counter = 0

\* sem := make(chan struct{}, concurrency)
MakeGate ==
    /\ mainPc = "start"
    /\ IF makeChanPanics(Config.ConcurrencyLimit)
       THEN mainPc' = "panic" /\ UNCHANGED semCap
       ELSE mainPc' = "loop" /\ semCap' = Config.ConcurrencyLimit
    /\ UNCHANGED <<unitVars, cycleVars, legacyVars, taskPort, invoked, sinkCalls, Config, ports, protocol, nextPort, sem, wg, results,
                   taskPc, proto, handlerResults, lines, conn, attempts>>

\* for _, port := range ports { wg.Add(1)
WgAdd ==
    /\ mainPc = "loop"
    /\ nextPort <= Len(ports)
    /\ wg' = wg + 1
    /\ mainPc' = "acquire"
    /\ UNCHANGED <<unitVars, cycleVars, legacyVars, taskPort, invoked, sinkCalls, Config, ports, protocol, nextPort, semCap, sem, results,
                   taskPc, proto, handlerResults, lines, conn, attempts>>

\* variant: the function literal has no parameter and reads the variable of
\* the range loop, one variable for all iterations, when it gets to run
portOfTaskShared(n, ps) == ps[Len(ps)]

\* the argument of go func(port int) {...}(port) in iteration n of the range loop
portOfTask(n, ps) == ps[n]

\* sem <- struct{}{}; go func(port int) {...}(port)
Launch ==
    /\ mainPc = "acquire"
    /\ canSend(sem, semCap)
    /\ sem' = sem + 1
    /\ taskPc' = [taskPc EXCEPT ![nextPort] = "run"]
    /\ taskPort' = [taskPort EXCEPT ![nextPort] = portOfTask(nextPort, ports)]
    /\ nextPort' = nextPort + 1
    /\ mainPc' = "loop"
    /\ UNCHANGED <<unitVars, cycleVars, legacyVars, invoked, sinkCalls, Config, ports, protocol, semCap, wg, results,
                   proto, handlerResults, lines, conn, attempts>>

\* variant: the scheduler reports after the wait whatever its results hold
schedulerSendsAlways(rs) == TRUE

\* if len(results) > 0 { sendToWebhook(results, webhookURL) } after wg.Wait()
schedulerSends(rs) == Len(rs) > 0

\* wg.Wait(); if len(results) > 0 { sendToWebhook(results, webhookURL) }
\* results is never appended to, so the call returns
Return ==
    /\ mainPc = "loop"
    /\ nextPort > Len(ports)
    /\ waitReturns(wg)
    /\ mainPc' = IF schedulerSends(results) THEN "webhook" ELSE "returned"
    /\ UNCHANGED <<unitVars, cycleVars, legacyVars, taskPort, invoked, sinkCalls, Config, ports, protocol, nextPort, semCap, sem, wg, results,
                   taskPc, proto, handlerResults, lines, conn, attempts>>

(***************************************************************************)
(* A port goroutine: dispatch and the deferred calls.                      *)
(***************************************************************************)
Dispatch(t) ==
    /\ Alive
    /\ taskPc[t] = "run"
    /\ proto' = [proto EXCEPT ![t] = effectiveProtocol(protocol, taskPort[t])]
    /\ taskPc' = [taskPc EXCEPT ![t] = dispatchNext(protocol, taskPort[t])]
    /\ invoked' = [invoked EXCEPT ![t] = @ + 1]
    /\ UNCHANGED <<unitVars, cycleVars, legacyVars, taskPort, sinkCalls, Config, ports, protocol, mainPc, nextPort, semCap, sem, wg,
                   results, handlerResults, lines, conn, attempts>>

\* defer func() { <-sem }(); the handler's locals are gone
Release(t) ==
    /\ Alive
    /\ taskPc[t] = "release"
    /\ sem' = semReceive(sem)
    /\ taskPc' = [taskPc EXCEPT ![t] = "wgdone"]
    /\ handlerResults' = [handlerResults EXCEPT ![t] = <<>>]
    /\ lines' = [lines EXCEPT ![t] = <<>>]
    /\ attempts' = [attempts EXCEPT ![t] = <<>>]
    /\ conn' = [conn EXCEPT ![t] = <<>>]
    /\ sinkCalls' = [sinkCalls EXCEPT ![t] = <<>>]
    /\ UNCHANGED <<unitVars, cycleVars, legacyVars, taskPort, invoked, Config, ports, protocol, mainPc, nextPort, semCap, wg,
                   results, proto>>

\* defer wg.Done()
WgDone(t) ==
    /\ Alive
    /\ taskPc[t] = "wgdone"
    /\ wg' = wg - 1
    /\ taskPc' = [taskPc EXCEPT ![t] = "done"]
    /\ UNCHANGED <<unitVars, cycleVars, legacyVars, taskPort, invoked, sinkCalls, Config, ports, protocol, mainPc, nextPort, semCap, sem,
                   results, proto, handlerResults, lines, conn, attempts>>

(***************************************************************************)
(* defaultTLSHandler and tlsHandshakeAndCollectWithTimeout.                *)
(***************************************************************************)
familyOf(pc) == IF pc \in {"ecdsa_dial", "ecdsa_hs"} THEN "ecdsa" ELSE "rsa"

\* variant: a failed ECDSA probe ends the handler's probing
afterEcdsaProbeStopsOnError(ok) == IF ok THEN "rsa_dial" ELSE "filter"

\* what defaultTLSHandler does when its ECDSA probe has returned, with or
\* without an error: it goes on to the RSA probe
afterEcdsaProbe(ok) == "rsa_dial"

\* results[i].Certificates = filterCerts(decodeBase64Certs(...), excludeCerts)
RECURSIVE filterResults(_, _)
filterResults(rs, rules) ==
    IF rs = <<>> THEN <<>>
    ELSE <<[Head(rs) EXCEPT
              !.Certificates = filterCerts(decodeBase64Certs(@), rules)]>>
         \o filterResults(Tail(rs), rules)

\* tlsHandshakeAndCollectWithTimeout has returned res (<<>> for an error, else
\* one ScanResult) to defaultTLSHandler in goroutine t
ProbeReturns(t, res) ==
    LET family == familyOf(taskPc[t])
        gathered == handlerResults[t] \o res
        filtered == filterResults(gathered, Config.ExcludeCerts)
        goOn == IF family = "ecdsa" THEN afterEcdsaProbe(res # <<>>) ELSE "filter"
    IN  /\ attempts' = [attempts EXCEPT
                          ![t] = Append(@, [Family |-> family, Succeeded |-> res # <<>>])]
        /\ IF goOn = "filter"
           THEN /\ handlerResults' = [handlerResults EXCEPT ![t] = filtered]
                /\ taskPc' = [taskPc EXCEPT
                                ![t] = IF Len(filtered) > 0 THEN "webhook"
                                       ELSE handlerReturnedNext(TRUE)]
           ELSE /\ handlerResults' = [handlerResults EXCEPT ![t] = gathered]
                /\ taskPc' = [taskPc EXCEPT ![t] = goOn]

\* dialer.Dial("tcp", address), bounded by dialTimeout
TlsDial(t) ==
    /\ Alive
    /\ taskPc[t] \in {"ecdsa_dial", "rsa_dial"}
    /\ \/ /\ taskPc' = [taskPc EXCEPT
                          ![t] = IF familyOf(@) = "ecdsa" THEN "ecdsa_hs" ELSE "rsa_hs"]
          /\ UNCHANGED <<handlerResults, attempts>>
       \/ ProbeReturns(t, <<>>)
    /\ UNCHANGED <<unitVars, cycleVars, legacyVars, taskPort, invoked, sinkCalls, Config, ports, protocol, mainPc, nextPort, semCap, sem, wg,
                   results, proto, lines, conn>>

\* variant: a handshake without certificates gives a result
noCertsFoundIgnored(certs) == FALSE

\* if len(certs) == 0 { return nil, fmt.Errorf("no certs found") }
noCertsFound(certs) == Len(certs) = 0

\* uconn.Handshake() and the collection of state.PeerCertificates
TlsHandshake(t) ==
    /\ Alive
    /\ taskPc[t] \in {"ecdsa_hs", "rsa_hs"}
    /\ \/ ProbeReturns(t, <<>>)
       \/ \E chain \in PeerChainsOf(taskPort[t]) \cup {<<>>} :
             LET certs == encodeChain(chain)
             IN  IF noCertsFound(certs)
                 THEN ProbeReturns(t, <<>>)
                 ELSE ProbeReturns(t, <<[Port |-> taskPort[t],
                                         HandshakeType |-> familyOf(taskPc[t]),
                                         Certificates |-> certs]>>)
    /\ UNCHANGED <<unitVars, cycleVars, legacyVars, taskPort, invoked, sinkCalls, Config, ports, protocol, mainPc, nextPort, semCap, sem, wg,
                   results, proto, lines, conn>>

(***************************************************************************)
(* The SMTP handler: scanSMTPStartTLS and the STARTTLS branch that calls   *)
(* it.  Lines are written without their CRLF.                              *)
(***************************************************************************)
\* variant: the capability scan is left out
supportsStartTLSUnchecked(ls) == TRUE

\* variant: the capability scan leaves out the line that ended the loop
supportsStartTLSBeforeLast(ls) ==
    \E i \in 1..(Len(ls) - 1) : StrContains(ToUpper(ls[i]), "STARTTLS")

\* for _, l := range lines { if strings.Contains(strings.ToUpper(l), "STARTTLS") ...
supportsStartTLS(ls) == \E i \in 1..Len(ls) : StrContains(ToUpper(ls[i]), "STARTTLS")

\* variant: any answer to STARTTLS is taken as readiness
startTLSAcceptedAlways(line) == TRUE

\* !(err != nil || !strings.HasPrefix(line, "220")) for a line that was read
startTLSAccepted(line) == HasPrefix(line, "220")

\* one more entry of the history of conn
Written(t, data) == Append(conn[t], [Op |-> "write", Data |-> data])
Read(t, data) == Append(conn[t], [Op |-> "read", Data |-> data])
ReadFailed(t) == Append(conn[t], [Op |-> "read error", Data |-> ""])

\* variant: a scan that returned an error is made again
afterScanErrorRetries == "smtp_dial"

\* if err != nil { logutil.DebugLog("STARTTLS scan failed: %v", err); continue }
afterScanError == handlerReturnedNext(TRUE)

\* scanSMTPStartTLS returned an error: the branch logs it and goes on
SmtpFails(t) ==
    /\ attempts' = [attempts EXCEPT
                      ![t] = Append(@, [Family |-> "starttls", Succeeded |-> FALSE])]
    /\ taskPc' = [taskPc EXCEPT ![t] = afterScanError]
    /\ lines' = [lines EXCEPT ![t] = <<>>]
    /\ UNCHANGED handlerResults

\* variant: EHLO is not preceded by the read of the greeting
afterSmtpDialSkipsGreeting == "smtp_ehlo"

\* what scanSMTPStartTLS does on the connection it has dialed: it reads the
\* greeting
afterSmtpDial == "smtp_greeting"

\* net.DialTimeout("tcp", address, time.Second)
SmtpDial(t) ==
    /\ Alive
    /\ taskPc[t] = "smtp_dial"
    /\ conn' = [conn EXCEPT ![t] = Append(@, [Op |-> "dial", Data |-> ""])]
    /\ \/ /\ taskPc' = [taskPc EXCEPT ![t] = afterSmtpDial]
          /\ UNCHANGED <<handlerResults, lines, attempts>>
       \/ SmtpFails(t)
    /\ UNCHANGED <<unitVars, cycleVars, legacyVars, taskPort, invoked, sinkCalls, Config, ports, protocol, mainPc, nextPort, semCap, sem, wg,
                   results, proto>>

\* reader.ReadString('\n') of the greeting, then EHLO certscan is written
SmtpGreeting(t) ==
    /\ Alive
    /\ taskPc[t] = "smtp_greeting"
    /\ \/ /\ taskPc' = [taskPc EXCEPT ![t] = "smtp_ehlo"]
          /\ lines' = [lines EXCEPT ![t] = <<>>]
          /\ conn' = [conn EXCEPT
                        ![t] = Append(Read(t, Greeting),
                                      [Op |-> "write", Data |-> "EHLO certscan"])]
          /\ UNCHANGED <<handlerResults, attempts>>
       \/ SmtpFails(t) /\ conn' = [conn EXCEPT ![t] = ReadFailed(t)]
    /\ UNCHANGED <<unitVars, cycleVars, legacyVars, taskPort, invoked, sinkCalls, Config, ports, protocol, mainPc, nextPort, semCap, sem, wg,
                   results, proto>>

\* one reader.ReadString('\n') of the EHLO loop; after the line that ends the
\* loop, the capability scan and the write of STARTTLS (lines is not read again
\* after the scan)
SmtpEhloLine(t) ==
    /\ Alive
    /\ taskPc[t] = "smtp_ehlo"
    /\ \/ \E line \in EhloLinesOf(taskPort[t]) :
             LET ls == Append(lines[t], line)
             IN  IF HasPrefix(line, "250-")
                 THEN /\ Len(ls) < MaxEhloLines
                      /\ lines' = [lines EXCEPT ![t] = ls]
                      /\ conn' = [conn EXCEPT ![t] = Read(t, line)]
                      /\ UNCHANGED <<taskPc, handlerResults, attempts>>
                 ELSE IF ~supportsStartTLS(ls)
                 THEN /\ SmtpFails(t)
                      /\ conn' = [conn EXCEPT ![t] = Read(t, line)]
                 ELSE /\ taskPc' = [taskPc EXCEPT ![t] = "smtp_starttls"]
                      /\ lines' = [lines EXCEPT ![t] = <<>>]
                      /\ conn' = [conn EXCEPT
                                    ![t] = Append(Read(t, line),
                                                  [Op |-> "write", Data |-> "STARTTLS"])]
                      /\ UNCHANGED <<handlerResults, attempts>>
       \/ SmtpFails(t) /\ conn' = [conn EXCEPT ![t] = ReadFailed(t)]
    /\ UNCHANGED <<unitVars, cycleVars, legacyVars, taskPort, invoked, sinkCalls, Config, ports, protocol, mainPc, nextPort, semCap, sem, wg,
                   results, proto>>

\* reader.ReadString('\n') of the answer to STARTTLS; on a 220 line tls.Client
\* and tlsConn.Handshake() follow
SmtpStartTLSReply(t) ==
    /\ Alive
    /\ taskPc[t] = "smtp_starttls"
    /\ \/ \E line \in StartTLSRepliesOf(taskPort[t]) :
             IF ~startTLSAccepted(line)
             THEN /\ SmtpFails(t)
                  /\ conn' = [conn EXCEPT ![t] = Read(t, line)]
             ELSE /\ taskPc' = [taskPc EXCEPT ![t] = "smtp_hs"]
                  /\ conn' = [conn EXCEPT
                                ![t] = Append(Read(t, line),
                                              [Op |-> "handshake", Data |-> ""])]
                  /\ UNCHANGED <<handlerResults, lines, attempts>>
       \/ SmtpFails(t) /\ conn' = [conn EXCEPT ![t] = ReadFailed(t)]
    /\ UNCHANGED <<unitVars, cycleVars, legacyVars, taskPort, invoked, sinkCalls, Config, ports, protocol, mainPc, nextPort, semCap, sem, wg,
                   results, proto>>

\* tlsConn.Handshake() returns; the result, and
\* sendToWebhook([]ScanResult{*result}, ...)
SmtpHandshake(t) ==
    /\ Alive
    /\ taskPc[t] = "smtp_hs"
    /\ \/ SmtpFails(t)
       \/ \E chain \in PeerChainsOf(taskPort[t]) \cup {<<>>} :
             IF Len(chain) = 0
             THEN SmtpFails(t)
             ELSE /\ handlerResults' =
                        [handlerResults EXCEPT
                           ![t] = <<[Port |-> taskPort[t],
                                     HandshakeType |-> "",
                                     Certificates |-> encodeChain(chain)]>>]
                  /\ attempts' = [attempts EXCEPT
                        ![t] = Append(@, [Family |-> "starttls", Succeeded |-> TRUE])]
                  /\ taskPc' = [taskPc EXCEPT ![t] = "webhook"]
                  /\ UNCHANGED lines
    /\ UNCHANGED <<unitVars, cycleVars, legacyVars, taskPort, invoked, sinkCalls, Config, ports, protocol, mainPc, nextPort, semCap, sem, wg,
                   results, proto, conn>>

(***************************************************************************)
(* Peers and the result sink.                                              *)
(***************************************************************************)
\* what a call of sendToWebhook can end with: json.Marshal fails, client.Do
\* fails (the client has a timeout), or the sink answers with a status
WebhookOutcomes == {"2xx", "403", "500", "transport error", "marshal error"}
\* the sink answers a batch of a port of the calls with several ports in two
\* ways, a batch of another port in all the ways of the model
WebhookOutcomesOf(port) ==
    IF port \in SchedulerPorts THEN {"2xx", "403"} ELSE WebhookOutcomes

\* variant: every 403 ends the process
webhookExitsOnEvery403(outcome, token) == outcome = "403"

\* os.Exit(1) of sendToWebhook
webhookExits(outcome, token) == outcome = "403" /\ token = ""

\* client.Do(req) of sendToWebhook returns in goroutine t
WebhookReturns(t) ==
    /\ Alive
    /\ taskPc[t] = "webhook"
    /\ \E outcome \in WebhookOutcomesOf(taskPort[t]) :
          /\ sinkCalls' = [sinkCalls EXCEPT ![t] = Append(@, outcome)]
          /\ IF webhookExits(outcome, Config.Token)
             THEN mainPc' = "exited" /\ UNCHANGED taskPc
             ELSE taskPc' = [taskPc EXCEPT ![t] = handlerReturnedNext(TRUE)]
                    /\ UNCHANGED mainPc
    /\ UNCHANGED <<unitVars, cycleVars, legacyVars, taskPort, invoked, Config, ports, protocol, nextPort, semCap, sem, wg,
                   results, proto, handlerResults, lines, conn, attempts>>

(***************************************************************************)
(* Specifications.                                                         *)
(***************************************************************************)
\* the steps of goroutine t that end within a bounded time whatever the peer
\* does: local steps, dials (net.Dialer.Timeout, net.DialTimeout) and the HTTP
\* round trip (http.Client.Timeout)
BoundedStep(t) ==
    \/ Dispatch(t)
    \/ TlsDial(t)
    \/ SmtpDial(t)
    \/ WebhookReturns(t)
    \/ Release(t)
    \/ WgDone(t)

Next ==
    \/ MakeGate
    \/ WgAdd
    \/ Launch
    \/ Return
    \/ \E t \in Tasks : Dispatch(t)
    \/ \E t \in Tasks : TlsDial(t)
    \/ \E t \in Tasks : TlsHandshake(t)
    \/ \E t \in Tasks : SmtpDial(t)
    \/ \E t \in Tasks : SmtpGreeting(t)
    \/ \E t \in Tasks : SmtpEhloLine(t)
    \/ \E t \in Tasks : SmtpStartTLSReply(t)
    \/ \E t \in Tasks : SmtpHandshake(t)
    \/ \E t \in Tasks : WebhookReturns(t)
    \/ \E t \in Tasks : Release(t)
    \/ \E t \in Tasks : WgDone(t)

Spec == Init /\ [][Next]_vars

\* The Go scheduler runs every goroutine that can run, and a step with a
\* timeout ends; a read without deadline ends only if the peer sends or closes.
FairSpec ==
    /\ Init
    /\ [][Next]_vars
    /\ WF_vars(MakeGate \/ WgAdd \/ Launch \/ Return)
    /\ \A t \in 1..MaxPorts : WF_vars(t \in Tasks /\ BoundedStep(t))

(***************************************************************************)
(* The wildcard matcher and the exclusion filter called on their own.      *)
(***************************************************************************)
\* longest certificate list handed to filterCerts
MaxCerts == 3
\* longest rule list
MaxRules == 2

UnitPatterns == {"", "*", "**", "*.example.com", "*example*", "example.com",
                 "EVIL*", "*Evil CA", "cn=good*", "a*.com"}
UnitStrings == {"", "anything", "mail.example.com", "xexampley", "example.com",
                "Example.COM", "evil.example.com", "a.example.com",
                "CN=Good CA", "CN=Evil CA", "a*.com", "A*.COM"}

UnitRules == {[Issuer |-> "", CN |-> ""],
              [Issuer |-> "*Evil*", CN |-> ""],
              [Issuer |-> "", CN |-> "A.example.com"],
              [Issuer |-> "cn=none", CN |-> "EVIL*"]}
UnitRuleLists == UNION {[1..n -> UnitRules] : n \in 0..MaxRules}

UnitDers == {"A", "E", "X"}
UnitDerLists == UNION {[1..n -> UnitDers] : n \in 0..MaxCerts}

\* no call of ScanAndSendWithProtocol is under way
NoScan ==
    /\ Config = [ConcurrencyLimit |-> 1, Token |-> "", ExcludeCerts |-> <<>>]
    /\ ports = <<>>
    /\ protocol = ""
    /\ mainPc = "returned"
    /\ nextPort = 1
    /\ semCap = 0
    /\ sem = 0
    /\ wg = 0
    /\ results = <<>>
    /\ taskPc = <<>>
    /\ proto = <<>>
    /\ handlerResults = <<>>
    /\ lines = <<>>
    /\ attempts = <<>>
    /\ conn = <<>>
    /\ taskPort = <<>>
    /\ invoked = <<>>
    /\ sinkCalls = <<>>

UnitInit ==
    /\ NoScan
    /\ NoCycle
    /\ NoLegacy
    /\ rets = <<>>
    /\ \/ fn = "matchWildcard" /\ args \in UnitPatterns \X UnitStrings
       \/ fn = "isCertExcluded" /\ args \in (DOMAIN ParsedCertificates) \X UnitRuleLists
       \/ fn = "filterCerts" /\ args \in UnitDerLists \X UnitRuleLists

\* matchWildcard(pattern, s)
CallMatchWildcard ==
    /\ fn = "matchWildcard"
    /\ rets = <<>>
    /\ rets' = <<matchWildcard(args[1], args[2])>>
    /\ UNCHANGED <<scanVars, cycleVars, legacyVars, fn, args>>

\* isCertExcluded(cert, rules), cert the parsed form of args[1]
CallIsCertExcluded ==
    /\ fn = "isCertExcluded"
    /\ rets = <<>>
    /\ rets' = <<isCertExcluded(ParsedCertificates[args[1]], args[2])>>
    /\ UNCHANGED <<scanVars, cycleVars, legacyVars, fn, args>>

\* filterCerts(derCerts, rules)
CallFilterCerts ==
    /\ fn = "filterCerts"
    /\ rets = <<>>
    /\ rets' = <<filterCerts(args[1], args[2])>>
    /\ UNCHANGED <<scanVars, cycleVars, legacyVars, fn, args>>

\* filterCerts(decodeBase64Certs(certs), rules) on what filterCerts returned,
\* as defaultTLSHandler calls it on the certificates of a result
CallFilterCertsAgain ==
    /\ fn = "filterCerts"
    /\ Len(rets) = 1
    /\ rets' = Append(rets, filterCerts(decodeBase64Certs(rets[1]), args[2]))
    /\ UNCHANGED <<scanVars, cycleVars, legacyVars, fn, args>>

UnitNext ==
    \/ CallMatchWildcard
    \/ CallIsCertExcluded
    \/ CallFilterCerts
    \/ CallFilterCertsAgain

UnitSpec == UnitInit /\ [][UnitNext]_vars

(***************************************************************************)
(* The scan cycle of cmd/main.go: the include list, then the neighbour     *)
(* phases that are enabled.  A behaviour of CycleSpec is one run of main   *)
(* after the configuration is loaded; a step ends where main blocks (a     *)
(* call into the scanner, a lookup, a discovery, a sleep), and the process *)
(* can be ended at every step by a signal.  Each call into the scanner is  *)
(* recorded with its arguments in scans when it is made.                   *)
(***************************************************************************)
\* longest include_list
MaxEntries == 2

Digits == {"0", "1", "2", "3", "4", "5", "6", "7", "8", "9"}
HexDigits == Digits \cup {"a", "b", "c", "d", "e", "f", "A", "B", "C", "D", "E", "F"}
\* the value of a decimal or hexadecimal digit
DigitValue(c) ==
    CASE c = "0" -> 0 [] c = "1" -> 1 [] c = "2" -> 2 [] c = "3" -> 3 [] c = "4" -> 4
      [] c = "5" -> 5 [] c = "6" -> 6 [] c = "7" -> 7 [] c = "8" -> 8 [] c = "9" -> 9
      [] c \in {"a", "A"} -> 10 [] c \in {"b", "B"} -> 11 [] c \in {"c", "C"} -> 12
      [] c \in {"d", "D"} -> 13 [] c \in {"e", "E"} -> 14 [] c \in {"f", "F"} -> 15
\* the digit of a value below 16, as strconv and netip write it
DigitOf(v) == SubSeq("0123456789abcdef", v + 1, v + 1)

\* the character of s at position i, counted from 1
CharAt(s, i) == SubSeq(s, i, i)
\* s[i:], i counted from 0 as in Go
From(s, i) == SubSeq(s, i + 1, Len(s))
\* the characters of s
Chars(s) == {CharAt(s, i) : i \in 1..Len(s)}
\* strings.IndexByte(s, c) + 1: the first position of c in s, 0 if there is none
IndexOf(s, c) ==
    IF \A i \in 1..Len(s) : CharAt(s, i) # c THEN 0
    ELSE CHOOSE i \in 1..Len(s) : CharAt(s, i) = c /\ \A j \in 1..(i - 1) : CharAt(s, j) # c
\* strings.LastIndexByte(s, c) + 1: the last position of c in s, 0 if there is none
LastIndexOf(s, c) ==
    IF \A i \in 1..Len(s) : CharAt(s, i) # c THEN 0
    ELSE CHOOSE i \in 1..Len(s) : CharAt(s, i) = c /\ \A j \in (i + 1)..Len(s) : CharAt(s, j) # c

\* the fields of s between the separators c, the first separator at position i
RECURSIVE SplitAt(_, _, _)
SplitAt(s, c, i) ==
    IF i = 0 THEN <<s>>
    ELSE <<SubSeq(s, 1, i - 1)>> \o SplitAt(From(s, i), c, IndexOf(From(s, i), c))
\* the fields of s between the separators c
SplitOn(s, c) == SplitAt(s, c, IndexOf(s, c))

\* the value of a string of digits in the given base
RECURSIVE ValueIn(_, _)
ValueIn(s, base) ==
    IF Len(s) = 0 THEN 0
    ELSE base * ValueIn(SubSeq(s, 1, Len(s) - 1), base) + DigitValue(CharAt(s, Len(s)))
DecimalValue(s) == ValueIn(s, 10)

\* s without its leading zeros
RECURSIVE StripZeros(_)
StripZeros(s) == IF Len(s) > 0 /\ CharAt(s, 1) = "0" THEN StripZeros(From(s, 1)) ELSE s

\* n >= 0 written in the given base
RECURSIVE WrittenIn(_, _)
WrittenIn(n, base) ==
    IF n < base THEN DigitOf(n) ELSE WrittenIn(n \div base, base) \o DigitOf(n % base)

\* the number that the decimal digits stand for, 0 if they are not decimal
\* digits, negated under a minus sign
SignedValue(digits, minus) ==
    IF Len(digits) = 0 \/ ~(Chars(digits) \subseteq Digits) THEN 0
    ELSE IF minus THEN 0 - DecimalValue(digits)
    ELSE DecimalValue(digits)
\* strconv.Atoi(s), the error dropped: an optional sign and decimal digits,
\* 0 for every other string (numbers of up to nine digits)
Atoi(s) ==
    IF Len(s) > 0 /\ CharAt(s, 1) \in {"+", "-"}
    THEN SignedValue(From(s, 1), CharAt(s, 1) = "-")
    ELSE SignedValue(s, FALSE)

\* no address: what net.ParseIP gives back as nil
NoAddr == [ok |-> FALSE, is4 |-> FALSE, groups |-> <<>>]

\* the fields fs as the bytes of an IPv4 address: four of them, decimal
\* digits, none empty, none with a leading zero, none above 255; <<>> for an
\* error
FieldValues(fs) ==
    IF /\ Len(fs) = 4
       /\ \A i \in 1..4 :
              /\ Len(fs[i]) > 0
              /\ Chars(fs[i]) \subseteq Digits
              /\ (Len(fs[i]) > 1 => CharAt(fs[i], 1) # "0")
              /\ Len(fs[i]) <= 3
              /\ DecimalValue(fs[i]) <= 255
    THEN [i \in 1..4 |-> DecimalValue(fs[i])]
    ELSE <<>>
\* parseIPv4Fields: the bytes of the dotted address s, <<>> for an error
ParseIPv4Fields(s) == FieldValues(SplitOn(s, "."))

\* how many hexadecimal digits s begins with
RECURSIVE HexRun(_)
HexRun(s) ==
    IF Len(s) > 0 /\ CharAt(s, 1) \in HexDigits THEN 1 + HexRun(From(s, 1)) ELSE 0

\* the end of parseIPv6: rest is what was not read, g the 16-bit groups read,
\* ellipsis the number of groups before "::" or -1
FinishIPv6(rest, g, ellipsis) ==
    IF Len(rest) # 0 THEN NoAddr
    ELSE IF Len(g) < 8
         THEN IF ellipsis < 0 THEN NoAddr
              ELSE [ok |-> TRUE, is4 |-> FALSE,
                    groups |-> SubSeq(g, 1, ellipsis)
                               \o [i \in 1..(8 - Len(g)) |-> 0]
                               \o SubSeq(g, ellipsis + 1, Len(g))]
    ELSE IF ellipsis >= 0 THEN NoAddr
    ELSE [ok |-> TRUE, is4 |-> FALSE, groups |-> g]

\* parseIPv6 at an embedded IPv4 address with the bytes f: it ends the address
EmbeddedIPv4(f, g, ellipsis) ==
    IF (ellipsis < 0 /\ Len(g) # 6) \/ Len(g) + 2 > 8 \/ f = <<>> THEN NoAddr
    ELSE FinishIPv6("", g \o <<f[1] * 256 + f[2], f[3] * 256 + f[4]>>, ellipsis)

\* the loop of parseIPv6 over the fields: the next field of s has off
\* hexadecimal digits
RECURSIVE ParseIPv6Field(_, _, _, _)
\* after a field: r is what follows it, g the groups with the one just read
RECURSIVE ParseIPv6Rest(_, _, _)
ParseIPv6Field(s, g, ellipsis, off) ==
    IF Len(g) >= 8 THEN FinishIPv6(s, g, ellipsis)
    ELSE IF off > 4 \/ off = 0 THEN NoAddr
    ELSE IF off < Len(s) /\ CharAt(s, off + 1) = "."
         THEN EmbeddedIPv4(ParseIPv4Fields(s), g, ellipsis)
    ELSE ParseIPv6Rest(From(s, off), Append(g, ValueIn(SubSeq(s, 1, off), 16)), ellipsis)
ParseIPv6Rest(r, g, ellipsis) ==
    IF Len(r) = 0 THEN FinishIPv6("", g, ellipsis)
    ELSE IF CharAt(r, 1) # ":" \/ Len(r) = 1 THEN NoAddr
    ELSE IF CharAt(r, 2) = ":"
         THEN IF ellipsis >= 0 THEN NoAddr
              ELSE IF Len(r) = 2 THEN FinishIPv6("", g, Len(g))
              ELSE ParseIPv6Field(From(r, 2), g, Len(g), HexRun(From(r, 2)))
    ELSE ParseIPv6Field(From(r, 1), g, ellipsis, HexRun(From(r, 1)))

\* parseIPv6: a leading "::" is read before the fields
ParseIPv6(s) ==
    IF Len(s) >= 2 /\ SubSeq(s, 1, 2) = "::"
    THEN IF Len(s) = 2 THEN [ok |-> TRUE, is4 |-> FALSE, groups |-> <<0, 0, 0, 0, 0, 0, 0, 0>>]
         ELSE ParseIPv6Field(From(s, 2), <<>>, 0, HexRun(From(s, 2)))
    ELSE ParseIPv6Field(s, <<>>, -1, HexRun(s))

\* the address with the bytes f in dotted form: its 16-byte form is the
\* IPv4-mapped one
AddrOfFields(f) ==
    IF f = <<>> THEN NoAddr
    ELSE [ok |-> TRUE, is4 |-> TRUE,
          groups |-> <<0, 0, 0, 0, 0, 65535, f[1] * 256 + f[2], f[3] * 256 + f[4]>>]

\* netip.ParseAddr without zones: the first of '.' and ':' in s says which
\* form it is; is4 says the dotted form, groups are the eight 16-bit groups of
\* the 16-byte form
ParseAddr(s) ==
    IF IndexOf(s, "%") # 0 THEN NoAddr
    ELSE IF IndexOf(s, ".") # 0 /\ (IndexOf(s, ":") = 0 \/ IndexOf(s, ".") < IndexOf(s, ":"))
         THEN AddrOfFields(ParseIPv4Fields(s))
    ELSE IF IndexOf(s, ":") # 0 THEN ParseIPv6(s)
    ELSE NoAddr

\* net.ParseIP(s) != nil
ParseIP(s) == ParseAddr(s).ok

\* ip.To4() != nil for the groups of a 16-byte address
To4(g) == Len(g) = 8 /\ (\A i \in 1..5 : g[i] = 0) /\ g[6] = 65535
\* ip != nil && ip.To4() != nil for what net.ParseIP gave
HasTo4(a) == a.ok /\ To4(a.groups)
\* net.ParseIP(s) gives an address with To4() != nil
IsIPv4(s) == HasTo4(ParseAddr(s))
\* ip != nil && ip.To4() == nil for what net.ParseIP gave
HasNoTo4(a) == a.ok /\ ~To4(a.groups)
\* net.ParseIP(s) gives an address with To4() == nil
IsIPv6(s) == HasNoTo4(ParseAddr(s))

\* the dotted form of the last two groups
Dotted(hi, lo) ==
    WrittenIn(hi \div 256, 10) \o "." \o WrittenIn(hi % 256, 10) \o "."
        \o WrittenIn(lo \div 256, 10) \o "." \o WrittenIn(lo % 256, 10)

\* how many groups from position i on are zero
RECURSIVE ZeroRun(_, _)
ZeroRun(g, i) == IF i <= Len(g) /\ g[i] = 0 THEN 1 + ZeroRun(g, i + 1) ELSE 0

\* where the longest of the runs of zero groups begins, the leftmost of the
\* longest; 0 if there is none
LongestRun(g, runs) ==
    IF runs = {} THEN 0
    ELSE CHOOSE i \in runs :
             \A j \in runs : ZeroRun(g, i) > ZeroRun(g, j) \/ (ZeroRun(g, i) = ZeroRun(g, j) /\ i <= j)
\* where the longest run of two or more zero groups begins
EllipsisAt(g) == LongestRun(g, {i \in 1..8 : ZeroRun(g, i) >= 2})

\* the groups from..to in hexadecimal with colons between them
RECURSIVE HexGroups(_, _, _)
HexGroups(g, from, to) ==
    IF from > to THEN ""
    ELSE IF from = to THEN WrittenIn(g[from], 16)
    ELSE WrittenIn(g[from], 16) \o ":" \o HexGroups(g, from + 1, to)

\* the groups in lower-case hexadecimal, "::" for the run of zero groups that
\* begins at position e
HexString(g, e) ==
    IF e = 0 THEN HexGroups(g, 1, 8)
    ELSE HexGroups(g, 1, e - 1) \o "::" \o HexGroups(g, e + ZeroRun(g, e), 8)
\* ip.String(): dotted for an address with To4() != nil, else the groups in
\* lower-case hexadecimal with the longest run of zero groups as "::"
IPString(g) == IF To4(g) THEN Dotted(g[7], g[8]) ELSE HexString(g, EllipsisAt(g))
\* ip.String() on what net.ParseIP gave
AddrString(a) == IPString(a.groups)

\* 2^n
RECURSIVE Pow2(_)
Pow2(n) == IF n = 0 THEN 1 ELSE 2 * Pow2(n - 1)

\* how many of the bits of group k a mask of n leading ones keeps
KeptBits(n, k) ==
    IF n >= 16 * k THEN 16 ELSE IF n <= 16 * (k - 1) THEN 0 ELSE n - 16 * (k - 1)
\* ip.Mask(net.CIDRMask(n, 128)) on groups
MaskGroups(g, n) == [k \in 1..8 |-> g[k] - (g[k] % Pow2(16 - KeptBits(n, k)))]
\* the highest address under the mask: ip | ^mask on groups
HighestGroups(g, n) == [k \in 1..8 |-> MaskGroups(g, n)[k] + Pow2(16 - KeptBits(n, k)) - 1]

\* no network: net.ParseCIDR returned an error
NoNet == [ok |-> FALSE, is4 |-> FALSE, ones |-> 0, ip |-> <<>>]

\* the network of address a under a mask of n bits, n at most the bit length
\* of a (32 for the dotted form, 128 else); ones counts the mask bits of the
\* 16-byte form, ip is ipnet.IP, the masked address
NetOfBits(a, n) ==
    IF n > (IF a.is4 THEN 32 ELSE 128) THEN NoNet
    ELSE [ok |-> TRUE, is4 |-> a.is4, ones |-> (IF a.is4 THEN 96 + n ELSE n),
          ip |-> MaskGroups(a.groups, IF a.is4 THEN 96 + n ELSE n)]
\* the network of address a under the mask written as mask: decimal digits,
\* of which at most three are significant
NetOf(a, mask) ==
    IF ~a.ok \/ Len(mask) = 0 \/ ~(Chars(mask) \subseteq Digits) \/ Len(StripZeros(mask)) > 3
    THEN NoNet
    ELSE NetOfBits(a, DecimalValue(StripZeros(mask)))
\* net.ParseCIDR(s), the first slash of s at position i
ParseCIDRAt(s, i) ==
    IF i = 0 THEN NoNet ELSE NetOf(ParseAddr(SubSeq(s, 1, i - 1)), From(s, i))
\* net.ParseCIDR(s): an address without zone, a slash and a prefix length
ParseCIDRNet(s) == ParseCIDRAt(s, IndexOf(s, "/"))

\* net.ParseCIDR(s) returns no error
ParseCIDR(s) == ParseCIDRNet(s).ok

\* err == nil && ipnet.IP.To4() != nil for what net.ParseCIDR gave
HasIPv4Net(n) == n.ok /\ (n.is4 \/ To4(n.ip))
\* _, ipnet, err := net.ParseCIDR(hostEntry); err == nil && ipnet.IP.To4() != nil
isIPv4CIDR(s) == HasIPv4Net(ParseCIDRNet(s))

\* broadcast[i] = ipnet.IP[i] | ^ipnet.Mask[i] for the four bytes of
\* ipnet.IP.To4(): the highest address of a network in dotted form, high its
\* groups; on a network in 16-byte form the first four bytes of ipnet.IP and
\* of the mask
BroadcastIn(is4, high) == IF is4 THEN Dotted(high[7], high[8]) ELSE Dotted(high[1], high[2])
BroadcastOfNet(n) == BroadcastIn(n.is4, HighestGroups(n.ip, n.ones))
broadcastOf(cidr) == BroadcastOfNet(ParseCIDRNet(cidr))

\* strings.EqualFold
EqualFold(a, b) == ToLower(a) = ToLower(b)

\* a failed net.SplitHostPort: err != nil
NoHostPort == [ok |-> FALSE, host |-> "", port |-> ""]
\* net.SplitHostPort(hostport), the last colon at position i and the first
\* closing bracket at position end: host and port around the last colon, the
\* host in brackets if it has colons itself; ok is err == nil
SplitAtColon(hostport, i, end) ==
    IF i = 0 THEN NoHostPort
    ELSE IF Len(hostport) > 0 /\ CharAt(hostport, 1) = "["
         THEN IF end = 0 \/ end + 1 # i THEN NoHostPort
              ELSE IF IndexOf(From(hostport, 1), "[") # 0 \/ IndexOf(From(hostport, end), "]") # 0
                   THEN NoHostPort
              ELSE [ok |-> TRUE, host |-> SubSeq(hostport, 2, end - 1), port |-> From(hostport, i)]
    ELSE IF IndexOf(SubSeq(hostport, 1, i - 1), ":") # 0 THEN NoHostPort
    ELSE IF IndexOf(hostport, "[") # 0 \/ IndexOf(hostport, "]") # 0 THEN NoHostPort
    ELSE [ok |-> TRUE, host |-> SubSeq(hostport, 1, i - 1), port |-> From(hostport, i)]
SplitHostPort(hostport) ==
    SplitAtColon(hostport, LastIndexOf(hostport, ":"), IndexOf(hostport, "]"))

\* what parseStaticHostEntry returns on the result r of net.SplitHostPort: the
\* whole entry as a host without port when it failed
HostAndPort(e, r) ==
    IF r.ok THEN [host |-> r.host, port |-> r.port, hasPort |-> TRUE]
    ELSE [host |-> e, port |-> "", hasPort |-> FALSE]
\* parseStaticHostEntry
parseStaticHostEntry(e) == HostAndPort(e, SplitHostPort(e))

\* flattenIncludeList
flattenIncludeList(list) == [i \in 1..Len(list) |-> list[i].Target]

\* isExplicitlyIncluded
isExplicitlyIncluded(host, includeList) ==
    \E i \in 1..Len(includeList) :
        ~ParseCIDR(includeList[i]) /\ EqualFold(host, includeList[i])

\* the addresses from low to high in dotted form, low and high groups of two
\* addresses with the same first six groups
AddressesBetween(low, high) ==
    [k \in 1..((high[7] - low[7] + 1) * (high[8] - low[8] + 1)) |->
        Dotted(low[7] + ((k - 1) \div (high[8] - low[8] + 1)),
               low[8] + ((k - 1) % (high[8] - low[8] + 1)))]
\* the addresses of the network n from the network address to the highest one
AddressesOf(n) ==
    IF ~n.ok \/ ~n.is4 THEN <<>> ELSE AddressesBetween(n.ip, HighestGroups(n.ip, n.ones))
\* discovery.ExpandCIDR on a network in dotted form
ExpandCIDR(cidr) == AddressesOf(ParseCIDRNet(cidr))

\* the entry of an exclude list names host: as the same name, as the same
\* address (a the address of host, b of the entry), or as a network n that
\* the address lies in
Excludes(host, entry, a, b, n) ==
    \/ EqualFold(host, entry)
    \/ a.ok /\ b.ok /\ a.groups = b.groups
    \/ a.ok /\ n.ok /\ MaskGroups(a.groups, n.ones) = n.ip
\* discovery.IsExcluded
IsExcluded(host, excludeList) ==
    \E i \in 1..Len(excludeList) :
        Excludes(host, excludeList[i], ParseAddr(host), ParseAddr(excludeList[i]),
                 ParseCIDRNet(excludeList[i]))

IncludeEntries ==
    {[Target |-> "10.0.0.0/30", Protocol |-> ""],
     [Target |-> "10.0.0.1", Protocol |-> "h2"],
     [Target |-> "10.0.0.1:8443", Protocol |-> ""],
     [Target |-> "web.example.com:8443", Protocol |-> "h2"],
     [Target |-> "web.example.com", Protocol |-> "h2"],
     [Target |-> "2001:0DB8::0009", Protocol |-> ""],
     [Target |-> "[::1]:8443", Protocol |-> "smtp"],
     [Target |-> "10.0.0.0/33", Protocol |-> ""],
     [Target |-> "256.0.0.1:+443", Protocol |-> ""]}
IncludeLists == UNION {[1..n -> IncludeEntries] : n \in 1..MaxEntries}
ExcludeLists == {<<>>, <<"10.0.0.1">>, <<"web.example.com", "10.0.0.9">>, <<"10.0.0.0/30">>}

\* net.LookupIP(host): an error (no addresses), or the addresses that the
\* resolver has for the name
LookupAnswers(host) == {<<>>, <<"10.0.0.9", "2001:db8::9">>}
\* discovery.DiscoverIPv4Neighbors / DiscoverIPv6Neighbors: an error (no
\* addresses), or the neighbours found
NeighborAnswers(phase) ==
    IF phase = "v4" THEN {<<>>, <<"10.0.0.1", "10.0.0.7">>} ELSE {<<>>, <<"2001:db8::9">>}

CycleInit ==
    /\ NoScan
    /\ NoLegacy
    /\ fn = ""
    /\ args = <<>>
    /\ rets = <<>>
    /\ cfg \in [IncludeList : IncludeLists, ExcludeList : ExcludeLists,
                Ports : {<<25, 443>>},
                EnableIPv4Discovery : BOOLEAN, EnableIPv6Discovery : BOOLEAN]
    /\ daemonMode \in BOOLEAN
    /\ cyclePc = "entries"
    /\ entryAt = 1
    /\ ips = <<>>
    /\ scanned = {}
    /\ scans = <<>>

\* positions of main inside a call into the scanner
CalledPcs == {"cidr_called", "ip_called", "hostport_called", "resolve_called",
              "v4_called", "v6_called"}
\* main has not ended
Running == cyclePc \notin {"idle", "returned", "exited", "killed"}

\* the range loop over cfg.IncludeList is at an entry
AtEntry == cyclePc = "entries" /\ entryAt <= Len(cfg.IncludeList)
hostEntry == cfg.IncludeList[entryAt].Target

\* a call fn(ip, hostname, ports, protocol) into the scanner, made for the
\* entry the loop is at (0: for a neighbour)
ScanCall(f, ip, hostname, ps, p, e) ==
    [Fn |-> f, Ip |-> ip, Hostname |-> hostname, Ports |-> ps, Protocol |-> p, Entry |-> e]

\* "Only apply exclusion if not explicitly included": the test before continue
skipsExcluded(e, hosts) ==
    /\ ~isExplicitlyIncluded(e, flattenIncludeList(cfg.IncludeList))
    /\ \E h \in hosts : IsExcluded(h, cfg.ExcludeList)

\* ip.To4() == nil && !cfg.EnableIPv6Discovery
skipsIPv6(ip) == IsIPv6(ip) /\ ~cfg.EnableIPv6Discovery

\* ResolveAndScan on ip := net.ParseIP(host) and on what net.LookupIP returns
ResolveCalls(host, ps, ip, answer) ==
    IF ip.ok
    THEN <<ScanCall("ScanAndSendWithProtocol", AddrString(ip), host, ps, "http1", entryAt)>>
    ELSE [i \in 1..Len(answer) |->
             ScanCall("ScanAndSendWithProtocol", AddrString(ParseAddr(answer[i])), host, ps,
                      "http1", entryAt)]
\* scanner.ResolveAndScan(host, ports), answer what net.LookupIP returns: the
\* calls of ScanAndSendWithProtocol it makes
ResolveAndScan(host, ps, answer) == ResolveCalls(host, ps, ParseAddr(host), answer)

\* continue, or the end of the loop body: the range loop goes to the next entry
NextEntry ==
    /\ cyclePc' = "entries"
    /\ entryAt' = entryAt + 1
    /\ ips' = <<>>

\* the addresses of list from the first one on that the loop does not pass
\* over, kept the positions of those it does not pass over
KeptFrom(list, kept) ==
    IF kept = {} THEN <<>>
    ELSE SubSeq(list, CHOOSE i \in kept : \A j \in kept : i <= j, Len(list))

\* an IPv4 CIDR entry: discovery.ExpandCIDR returns the addresses or an error
EnterCIDREntry ==
    /\ AtEntry
    /\ isIPv4CIDR(hostEntry)
    /\ \/ NextEntry
       \/ /\ ips' = ExpandCIDR(hostEntry)
          /\ cyclePc' = "cidr"
          /\ UNCHANGED entryAt
    /\ UNCHANGED <<scanVars, unitVars, legacyVars, cfg, daemonMode, scanned, scans>>

\* the loop over the addresses of the network, rest the addresses from the
\* first one on that is not passed over: it is scanned
ScanCIDR(rest) ==
    IF rest = <<>>
    THEN NextEntry /\ UNCHANGED scans
    ELSE /\ scans' = Append(scans,
                            ScanCall("ScanAndSendWithProtocol", Head(rest), Head(rest),
                                     cfg.Ports, cfg.IncludeList[entryAt].Protocol, entryAt))
         /\ ips' = rest
         /\ cyclePc' = "cidr_called"
         /\ UNCHANGED entryAt
\* the addresses the loop passes over: the one equal to broadcast, the excluded
\* ones and the ones scanned in this cycle
CIDRRest(broadcast) ==
    KeptFrom(ips, {i \in 1..Len(ips) : /\ ips[i] # broadcast
                                       /\ ~IsExcluded(ips[i], cfg.ExcludeList)
                                       /\ ips[i] \notin scanned})
CIDRStep ==
    /\ cyclePc = "cidr"
    /\ ScanCIDR(CIDRRest(broadcastOf(hostEntry)))
    /\ UNCHANGED <<scanVars, unitVars, legacyVars, cfg, daemonMode, scanned>>

\* the call returns: scanned[ipStr] = true, and the throttle delay
CIDRCallReturns ==
    /\ cyclePc = "cidr_called"
    /\ scanned' = scanned \cup {Head(ips)}
    /\ ips' = Tail(ips)
    /\ cyclePc' = "cidr"
    /\ UNCHANGED <<scanVars, unitVars, legacyVars, cfg, daemonMode, entryAt, scans>>

\* the branch of main for an entry e = parseStaticHostEntry(hostEntry) whose
\* host is the address ip = net.ParseIP(e.host)
ScanIP(e, ip) ==
    /\ ip.ok
    /\ IF \/ skipsExcluded(hostEntry, {hostEntry, e.host})
          \/ skipsExcluded(hostEntry, {AddrString(ip)})
          \/ HasNoTo4(ip) /\ ~cfg.EnableIPv6Discovery
       THEN NextEntry /\ UNCHANGED scans
       ELSE /\ scans' = Append(scans,
                               ScanCall("ScanAndSendWithProtocol", AddrString(ip), e.host,
                                        IF e.hasPort THEN <<Atoi(e.port)>> ELSE cfg.Ports,
                                        cfg.IncludeList[entryAt].Protocol, entryAt))
            /\ cyclePc' = "ip_called"
            /\ UNCHANGED <<entryAt, ips>>

\* an entry that is an IP address, with or without port
ScanIPEntry ==
    /\ AtEntry
    /\ ~isIPv4CIDR(hostEntry)
    /\ ScanIP(parseStaticHostEntry(hostEntry), ParseAddr(parseStaticHostEntry(hostEntry).host))
    /\ UNCHANGED <<scanVars, unitVars, legacyVars, cfg, daemonMode, scanned>>

\* the call returns: scanned[hostEntry] = true, the throttle delay, continue
IPCallReturns ==
    /\ cyclePc = "ip_called"
    /\ scanned' = scanned \cup {hostEntry}
    /\ NextEntry
    /\ UNCHANGED <<scanVars, unitVars, legacyVars, cfg, daemonMode, scans>>

\* the branches of main for an entry e = parseStaticHostEntry(hostEntry) whose
\* host is no address: unless the entry is excluded, main blocks in a lookup
EnterName(e, withPort, lookupPc) ==
    /\ ~ParseIP(e.host)
    /\ e.hasPort = withPort
    /\ IF skipsExcluded(hostEntry, {hostEntry, e.host})
       THEN NextEntry
       ELSE cyclePc' = lookupPc /\ UNCHANGED <<entryAt, ips>>

\* an entry hostname:port: net.LookupIP(host) is called
EnterHostPortEntry ==
    /\ AtEntry
    /\ ~isIPv4CIDR(hostEntry)
    /\ EnterName(parseStaticHostEntry(hostEntry), TRUE, "hostport_lookup")
    /\ UNCHANGED <<scanVars, unitVars, legacyVars, cfg, daemonMode, scanned, scans>>

\* net.LookupIP returns: an error or no address ends the entry
HostPortLookupReturns ==
    /\ cyclePc = "hostport_lookup"
    /\ \E answer \in LookupAnswers(parseStaticHostEntry(hostEntry).host) :
           IF Len(answer) = 0
           THEN NextEntry
           ELSE ips' = answer /\ cyclePc' = "hostport" /\ UNCHANGED entryAt
    /\ UNCHANGED <<scanVars, unitVars, legacyVars, cfg, daemonMode, scanned, scans>>

\* the loop over the addresses of the name e.host, rest the addresses from
\* the first one on that is not passed over: the port is scanned on it; after
\* the last, scanned[hostEntry] = true
ScanHostPort(e, rest) ==
    IF rest = <<>>
    THEN /\ scanned' = scanned \cup {hostEntry}
         /\ NextEntry
         /\ UNCHANGED scans
    ELSE /\ scans' = Append(scans,
                            ScanCall("ScanAndSendWithProtocol", AddrString(ParseAddr(Head(rest))),
                                     e.host, <<Atoi(e.port)>>,
                                     cfg.IncludeList[entryAt].Protocol, entryAt))
         /\ ips' = rest
         /\ cyclePc' = "hostport_called"
         /\ UNCHANGED <<entryAt, scanned>>
HostPortStep ==
    /\ cyclePc = "hostport"
    /\ ScanHostPort(parseStaticHostEntry(hostEntry),
                    KeptFrom(ips, {i \in 1..Len(ips) : /\ ~skipsExcluded(hostEntry, {ips[i]})
                                                       /\ ~skipsIPv6(ips[i])}))
    /\ UNCHANGED <<scanVars, unitVars, legacyVars, cfg, daemonMode>>

HostPortCallReturns ==
    /\ cyclePc = "hostport_called"
    /\ ips' = Tail(ips)
    /\ cyclePc' = "hostport"
    /\ UNCHANGED <<scanVars, unitVars, legacyVars, cfg, daemonMode, entryAt, scanned, scans>>

\* an entry that is a bare hostname: scanner.ResolveAndScan(host, cfg.Ports)
\* is called and calls net.LookupIP(host)
EnterHostnameEntry ==
    /\ AtEntry
    /\ ~isIPv4CIDR(hostEntry)
    /\ EnterName(parseStaticHostEntry(hostEntry), FALSE, "resolve_lookup")
    /\ UNCHANGED <<scanVars, unitVars, legacyVars, cfg, daemonMode, scanned, scans>>

\* net.LookupIP returns inside ResolveAndScan: on an error there is no address
ResolveLookupReturns ==
    /\ cyclePc = "resolve_lookup"
    /\ \E answer \in LookupAnswers(parseStaticHostEntry(hostEntry).host) : ips' = answer
    /\ cyclePc' = "resolve"
    /\ UNCHANGED <<scanVars, unitVars, legacyVars, cfg, daemonMode, entryAt, scanned, scans>>

\* the loop of ResolveAndScan: the next address is scanned; after the last
\* ResolveAndScan returns and main sets scanned[hostEntry] = true
ResolveStep ==
    /\ cyclePc = "resolve"
    /\ IF ips = <<>>
       THEN /\ scanned' = scanned \cup {hostEntry}
            /\ NextEntry
            /\ UNCHANGED scans
       ELSE /\ scans' = scans \o ResolveAndScan(parseStaticHostEntry(hostEntry).host,
                                                cfg.Ports, <<Head(ips)>>)
            /\ cyclePc' = "resolve_called"
            /\ UNCHANGED <<entryAt, ips, scanned>>
    /\ UNCHANGED <<scanVars, unitVars, legacyVars, cfg, daemonMode>>

ResolveCallReturns ==
    /\ cyclePc = "resolve_called"
    /\ ips' = Tail(ips)
    /\ cyclePc' = "resolve"
    /\ UNCHANGED <<scanVars, unitVars, legacyVars, cfg, daemonMode, entryAt, scanned, scans>>

\* where main goes after the include list ("entries") and after a neighbour
\* phase: into the next phase that is enabled, or to the end of the cycle
PhaseAfter(phase) ==
    IF phase = "entries" /\ cfg.EnableIPv4Discovery THEN "v4_discover"
    ELSE IF phase \in {"entries", "v4"} /\ cfg.EnableIPv6Discovery THEN "v6_discover"
    ELSE "cycle_end"

\* the range loop over cfg.IncludeList has ended
EndEntries ==
    /\ cyclePc = "entries"
    /\ entryAt > Len(cfg.IncludeList)
    /\ cyclePc' = PhaseAfter("entries")
    /\ UNCHANGED <<scanVars, unitVars, legacyVars, cfg, daemonMode, entryAt, ips, scanned, scans>>

\* discovery.DiscoverIPv4Neighbors / DiscoverIPv6Neighbors returns
DiscoverReturns(phase) ==
    /\ cyclePc = phase \o "_discover"
    /\ \E answer \in NeighborAnswers(phase) : ips' = answer
    /\ cyclePc' = phase
    /\ UNCHANGED <<scanVars, unitVars, legacyVars, cfg, daemonMode, entryAt, scanned, scans>>

\* the loop over the neighbours, rest the neighbours from the first one on
\* that was not scanned in this cycle: it is scanned with scanner.ScanAndSend
ScanNeighbor(phase, rest) ==
    IF rest = <<>>
    THEN /\ cyclePc' = PhaseAfter(phase)
         /\ ips' = <<>>
         /\ UNCHANGED scans
    ELSE /\ scans' = Append(scans,
                            ScanCall("ScanAndSend", Head(rest), Head(rest), cfg.Ports, "", 0))
         /\ ips' = rest
         /\ cyclePc' = phase \o "_called"
NeighborStep(phase) ==
    /\ cyclePc = phase
    /\ ScanNeighbor(phase, KeptFrom(ips, {i \in 1..Len(ips) : ips[i] \notin scanned}))
    /\ UNCHANGED <<scanVars, unitVars, legacyVars, cfg, daemonMode, entryAt, scanned>>

\* the call returns: scanned[ip] = true, and the throttle delay
NeighborCallReturns(phase) ==
    /\ cyclePc = phase \o "_called"
    /\ scanned' = scanned \cup {Head(ips)}
    /\ ips' = Tail(ips)
    /\ cyclePc' = phase
    /\ UNCHANGED <<scanVars, unitVars, legacyVars, cfg, daemonMode, entryAt, scans>>

\* if !*daemonMode { break }
EndRun ==
    /\ cyclePc = "cycle_end"
    /\ ~daemonMode
    /\ cyclePc' = "returned"
    /\ UNCHANGED <<scanVars, unitVars, legacyVars, cfg, daemonMode, entryAt, ips, scanned, scans>>

\* the daemon sleeps and starts over with scanned := make(map[string]bool)
NextCycle ==
    /\ cyclePc = "cycle_end"
    /\ daemonMode
    /\ cyclePc' = "entries"
    /\ entryAt' = 1
    /\ scanned' = {}
    /\ scans' = <<>>
    /\ UNCHANGED <<scanVars, unitVars, legacyVars, cfg, daemonMode, ips>>

\* SIGINT or SIGTERM: the signal goroutine calls os.Exit(0)
Signal ==
    /\ Running
    /\ cyclePc' = "killed"
    /\ UNCHANGED <<scanVars, unitVars, legacyVars, cfg, daemonMode, entryAt, ips, scanned, scans>>

\* os.Exit(1) of sendToWebhook inside a call into the scanner
ScannerExits ==
    /\ cyclePc \in CalledPcs
    /\ cyclePc' = "exited"
    /\ UNCHANGED <<scanVars, unitVars, legacyVars, cfg, daemonMode, entryAt, ips, scanned, scans>>

CycleNext ==
    \/ EnterCIDREntry
    \/ CIDRStep
    \/ CIDRCallReturns
    \/ ScanIPEntry
    \/ IPCallReturns
    \/ EnterHostPortEntry
    \/ HostPortLookupReturns
    \/ HostPortStep
    \/ HostPortCallReturns
    \/ EnterHostnameEntry
    \/ ResolveLookupReturns
    \/ ResolveStep
    \/ ResolveCallReturns
    \/ EndEntries
    \/ \E phase \in {"v4", "v6"} : DiscoverReturns(phase)
    \/ \E phase \in {"v4", "v6"} : NeighborStep(phase)
    \/ \E phase \in {"v4", "v6"} : NeighborCallReturns(phase)
    \/ EndRun
    \/ NextCycle
    \/ Signal
    \/ ScannerExits

CycleSpec == CycleInit /\ [][CycleNext]_vars

(***************************************************************************)
(* ScanAndSend, the entry point of the older callers: a behaviour of       *)
(* LegacySpec is one call ScanAndSend(ip, host, ports), and each call of   *)
(* ScanAndSendWithProtocol it makes runs by the actions of Next.           *)
(***************************************************************************)
LegacyPorts == {25, 443, 465, 993}
LegacyPortLists == UNION {[1..n -> LegacyPorts] : n \in 1..MaxPorts}

\* proto of ScanAndSend: http1 by default and on the web ports, smtp on the
\* SMTP ports
legacyProtocol(port) ==
    IF port \in webPorts THEN "http1"
    ELSE IF port \in smtpPorts THEN "smtp"
    ELSE "http1"

LegacyInit ==
    /\ Config \in [ConcurrencyLimit : -1..MaxLimit, Token : Tokens, ExcludeCerts : {<<>>}]
    /\ ports = <<>>
    /\ protocol = ""
    /\ mainPc = "returned"
    /\ nextPort = 1
    /\ semCap = 0
    /\ sem = 0
    /\ wg = 0
    /\ results = <<>>
    /\ taskPc = <<>>
    /\ proto = <<>>
    /\ handlerResults = <<>>
    /\ lines = <<>>
    /\ attempts = <<>>
    /\ conn = <<>>
    /\ taskPort = <<>>
    /\ invoked = <<>>
    /\ sinkCalls = <<>>
    /\ NoCycle
    /\ fn = ""
    /\ args = <<>>
    /\ rets = <<>>
    /\ legacyPorts \in LegacyPortLists
    /\ legacyAt = 1
    /\ legacyCalls = <<>>

\* the goroutines of the call of ScanAndSendWithProtocol made last that have
\* not ended
InFlight == {t \in Tasks : taskPc[t] # "done"}

\* one round of the range loop: ScanAndSendWithProtocol(ip, host, []int{port},
\* proto) is entered, the call before having returned
LegacyCall ==
    /\ legacyAt <= Len(legacyPorts)
    /\ mainPc = "returned"
    /\ legacyCalls' = Append(legacyCalls,
                             [Ports |-> <<legacyPorts[legacyAt]>>,
                              Protocol |-> legacyProtocol(legacyPorts[legacyAt]),
                              InFlight |-> Cardinality(InFlight)])
    /\ legacyAt' = legacyAt + 1
    /\ ports' = <<legacyPorts[legacyAt]>>
    /\ protocol' = legacyProtocol(legacyPorts[legacyAt])
    /\ mainPc' = "start"
    /\ nextPort' = 1
    /\ semCap' = 0
    /\ sem' = 0
    /\ wg' = 0
    /\ results' = <<>>
    /\ taskPc' = <<"idle">>
    /\ proto' = <<"">>
    /\ handlerResults' = << <<>> >>
    /\ lines' = << <<>> >>
    /\ attempts' = << <<>> >>
    /\ conn' = << <<>> >>
    /\ taskPort' = <<0>>
    /\ invoked' = <<0>>
    /\ sinkCalls' = << <<>> >>
    /\ UNCHANGED <<unitVars, cycleVars, Config, legacyPorts>>

LegacyNext ==
    \/ LegacyCall
    \/ Next

LegacySpec == LegacyInit /\ [][LegacyNext]_vars

(***************************************************************************)
(* Properties.                                                             *)
(***************************************************************************)
Holders == {t \in Tasks : taskPc[t] \in SlotPcs}
Resolved(t) == taskPc[t] \notin {"idle", "run"}

\* C1: with a concurrency limit C >= 1, at most C port goroutines hold an
\* admission slot at any time, whatever the port list and the interleaving.
C1_AtMostLimitHoldSlot ==
    Config.ConcurrencyLimit >= 1 => Cardinality(Holders) <= Config.ConcurrencyLimit

\* the gate is full and the scheduler waits at it with a port still to launch
C1_Witness ==
    /\ Config.ConcurrencyLimit = 1
    /\ Len(ports) = 2
    /\ mainPc = "acquire"
    /\ nextPort = 2
    /\ taskPc[1] \in HandlerPcs

\* C2: every port goroutine gives its slot back exactly once, on every path to
\* its end: the slots held are exactly those of the goroutines that have not
\* yet passed their deferred receive, and none is held when the call returns.
C2_SlotReleasedOnEveryPath ==
    /\ sem = Cardinality(Holders)
    /\ mainPc = "returned" => sem = 0

\* a call over an SMTP port and a web port has returned under limit 1: both
\* goroutines took and gave back the one slot
C2_Witness ==
    /\ mainPc = "returned"
    /\ Len(ports) = 2
    /\ protocol = ""
    /\ ports = <<25, 443>>
    /\ Config.ConcurrencyLimit = 1

\* C3: the call returns only after every goroutine it launched has ended.
C3_ReturnsAfterAllTasks ==
    mainPc = "returned" => \A t \in Tasks : taskPc[t] = "done"

\* a call over two ports has returned
C3_Witness ==
    /\ mainPc = "returned"
    /\ Len(ports) = 2
    /\ Config.ConcurrencyLimit = 2
    /\ protocol = "http1"

\* C4: with a configured limit that is zero or negative, a call over a port
\* list that is not empty gets an admission gate of capacity 1.
C4_NonPositiveLimitGivesCapacityOne ==
    (Config.ConcurrencyLimit <= 0 /\ Len(ports) > 0 /\ mainPc # "start") =>
        (mainPc # "panic" /\ semCap = 1)

\* C5: every port goroutine ends and the call returns (or the process exits
\* from the sink), whatever the peers do.
C5_CallEventuallyReturns ==
    (mainPc = "loop" /\ semCap >= 1) ~> (mainPc \in {"returned", "exited"})

\* C6: a protocol argument that is not empty is the protocol of every port.
C6_ExplicitProtocolWins ==
    \A t \in Tasks : (Resolved(t) /\ protocol # "") => proto[t] = protocol

\* C7: without a protocol argument the protocol of a port is smtp for 25, 465
\* and 587, http1 for 443, 8443, 4433, 5001 and 10443, and empty otherwise.
C7_DefaultProtocolOfPort ==
    \A t \in Tasks :
        (Resolved(t) /\ protocol = "") =>
            proto[t] = IF ports[t] \in {25, 465, 587} THEN "smtp"
                       ELSE IF ports[t] \in {443, 8443, 4433, 5001, 10443} THEN "http1"
                       ELSE ""

\* port 10443 was resolved to http1 in a call without protocol
C7_Witness ==
    /\ protocol = ""
    /\ \E t \in Tasks : Resolved(t) /\ ports[t] = 10443 /\ proto[t] = "http1"

\* C8: a goroutine whose protocol is outside the allow-list never enters a
\* handler: it dials nothing, probes nothing and sends nothing to the sink.
C8_RejectedProtocolDoesNothing ==
    \A t \in Tasks :
        (Resolved(t) /\ proto[t] \notin AllowedProtocols) =>
            /\ taskPc[t] \notin HandlerPcs
            /\ attempts[t] = <<>>
            /\ handlerResults[t] = <<>>

\* the goroutine of port 443 under protocol ftp has ended
C8_Witness ==
    /\ protocol = "ftp"
    /\ \E t \in Tasks : ports[t] = 443 /\ proto[t] = "ftp" /\ taskPc[t] = "done"

\* C9: a goroutine whose protocol is imap, pop3, ldap or custom does no network
\* I/O and sends nothing: no TLS probe follows the handler that returned false.
C9_StubDoesNoIO ==
    \A t \in Tasks :
        (Resolved(t) /\ proto[t] \in {"imap", "pop3", "ldap", "custom"}) =>
            /\ taskPc[t] \notin HandlerPcs
            /\ attempts[t] = <<>>
            /\ handlerResults[t] = <<>>

\* the goroutine of port 993 under protocol ldap has ended
C9_Witness ==
    /\ protocol = "ldap"
    /\ \E t \in Tasks : ports[t] = 993 /\ proto[t] = "ldap" /\ taskPc[t] = "done"

RECURSIVE SucceededFamilies(_)
SucceededFamilies(as) ==
    IF as = <<>> THEN <<>>
    ELSE (IF Head(as).Succeeded THEN <<Head(as).Family>> ELSE <<>>)
         \o SucceededFamilies(Tail(as))

\* C10: when defaultTLSHandler is through with probing it has made the ECDSA
\* probe and the RSA probe, whatever either returned, and holds one result per
\* probe that succeeded, tagged with that family.
C10_BothFamiliesProbed ==
    \A t \in Tasks :
        (proto[t] \in {"http1", "h2", "h3"} /\ taskPc[t] \in {"webhook", "release"}) =>
            /\ Len(attempts[t]) = 2
            /\ attempts[t][1].Family = "ecdsa"
            /\ attempts[t][2].Family = "rsa"
            /\ [i \in 1..Len(handlerResults[t]) |-> handlerResults[t][i].HandshakeType]
                   = SucceededFamilies(attempts[t])

\* the ECDSA probe failed, the RSA probe succeeded, and the RSA result alone
\* is on its way to the sink
C10_Witness ==
    \E t \in Tasks :
        /\ taskPc[t] = "webhook"
        /\ attempts[t] = <<[Family |-> "ecdsa", Succeeded |-> FALSE],
                           [Family |-> "rsa", Succeeded |-> TRUE]>>
        /\ Len(handlerResults[t]) = 1
        /\ handlerResults[t][1].HandshakeType = "rsa"

\* the argument of the sendToWebhook call goroutine t is in
SinkPayload(t) == IF taskPc[t] = "webhook" THEN handlerResults[t] ELSE <<>>

\* C11: no ScanResult with an empty certificate list is handed to the sink.
C11_NoEmptyResultForwarded ==
    \A t \in Tasks :
        \A i \in 1..Len(SinkPayload(t)) : SinkPayload(t)[i].Certificates # <<>>

\* whether a base64 certificate entry is a certificate that a rule excludes
EntryMatchesRule(b64, rules) ==
    \E der \in DOMAIN ParsedCertificates :
        /\ Base64Table[der] = b64
        /\ \E i \in 1..Len(rules) :
              \/ matchWildcard(rules[i].Issuer, ParsedCertificates[der].Issuer)
              \/ matchWildcard(rules[i].CN, ParsedCertificates[der].CN)

\* C12: no certificate that matches a configured exclusion rule is handed to
\* the sink, on the TLS path and on the STARTTLS path alike.
C12_NoExcludedCertReachesSink ==
    \A t \in Tasks :
        \A i \in 1..Len(SinkPayload(t)) :
            \A k \in 1..Len(SinkPayload(t)[i].Certificates) :
                ~EntryMatchesRule(SinkPayload(t)[i].Certificates[k], Config.ExcludeCerts)

\* C13: no ScanResult lists the same certificate twice.
C13_NoDuplicateCertificates ==
    \A t \in Tasks :
        \A i \in 1..Len(handlerResults[t]) :
            LET certs == handlerResults[t][i].Certificates
            IN  \A j, k \in 1..Len(certs) : certs[j] = certs[k] => j = k

\* C14: filtering what filterCerts returned, decoded, with the same rules
\* returns the same list.
C14_FilterIdempotent ==
    (fn = "filterCerts" /\ Len(rets) = 2) => rets[2] = rets[1]

\* a list from which the first filtering took an unparsable entry and an
\* excluded certificate has been filtered again
C14_Witness ==
    /\ fn = "filterCerts"
    /\ Len(rets) = 2
    /\ args = <<<<"A", "X", "E">>, <<[Issuer |-> "*Evil*", CN |-> ""]>>>>
    /\ rets[1] = <<"QQ==">>

\* s with its letters in one case
Folded(s) == ToUpper(s)
EndsWith(s, x) == \E k \in 0..Len(s) : SubSeq(s, k + 1, Len(s)) = x
StartsWith(s, x) == \E k \in 0..Len(s) : SubSeq(s, 1, k) = x
Includes(s, x) == \E j \in 0..Len(s) : \E k \in j..Len(s) : SubSeq(s, j + 1, k) = x

\* the matcher as the specification describes it
WildcardMatches(pattern, s) ==
    LET p == Folded(pattern)
        l == Folded(s)
        n == Len(p)
        leading == n >= 1 /\ SubSeq(p, 1, 1) = "*"
        trailing == n >= 1 /\ SubSeq(p, n, n) = "*"
    IN  IF n = 0 THEN FALSE
        ELSE IF p = "*" THEN TRUE
        ELSE IF leading /\ trailing THEN Includes(l, SubSeq(p, 2, n - 1))
        ELSE IF leading THEN EndsWith(l, SubSeq(p, 2, n))
        ELSE IF trailing THEN StartsWith(l, SubSeq(p, 1, n - 1))
        ELSE l = p

\* a rule with a pattern that is not empty and matches the certificate
RuleMatches(rule, cert) ==
    \/ rule.Issuer # "" /\ WildcardMatches(rule.Issuer, cert.Issuer)
    \/ rule.CN # "" /\ WildcardMatches(rule.CN, cert.CN)

\* C15: isCertExcluded returns true exactly when some rule has an issuer
\* pattern, not empty, that matches the issuer or a CN pattern, not empty, that
\* matches the subject common name; a rule with both patterns empty and an
\* empty rule list exclude nothing.
C15_ExcludedIffSomeRuleMatches ==
    (fn = "isCertExcluded" /\ Len(rets) = 1) =>
        LET cert == ParsedCertificates[args[1]]
            rules == args[2]
        IN  /\ rets[1] = (\E i \in 1..Len(rules) : RuleMatches(rules[i], cert))
            /\ (\A i \in 1..Len(rules) : rules[i] = [Issuer |-> "", CN |-> ""])
                   => rets[1] = FALSE

\* the certificate of Good CA is excluded by the CN pattern of the second rule,
\* the first rule having both patterns empty
C15_Witness ==
    /\ fn = "isCertExcluded"
    /\ args = <<"A", <<[Issuer |-> "", CN |-> ""],
                       [Issuer |-> "", CN |-> "A.example.com"]>>>>
    /\ rets = <<TRUE>>

\* the entries of derCerts that parse and that no rule excludes, in their order
RECURSIVE Survivors(_, _)
Survivors(derCerts, rules) ==
    IF derCerts = <<>> THEN <<>>
    ELSE (IF /\ Head(derCerts) \in DOMAIN ParsedCertificates
             /\ ~\E i \in 1..Len(rules) :
                    RuleMatches(rules[i], ParsedCertificates[Head(derCerts)])
          THEN <<Head(derCerts)>> ELSE <<>>)
         \o Survivors(Tail(derCerts), rules)

\* C16: filterCerts returns exactly the entries of its input that parse and
\* are not excluded, each with its own bytes, in the order of the input.
C16_FilterKeepsSurvivorsInOrder ==
    (fn = "filterCerts" /\ Len(rets) >= 1) =>
        LET want == Survivors(args[1], args[2])
        IN  /\ Len(rets[1]) = Len(want)
            /\ \A i \in 1..Len(want) : rets[1][i] = Base64Table[want[i]]

\* of three entries the unparsable one and the excluded one are gone
C16_Witness ==
    /\ fn = "filterCerts"
    /\ args = <<<<"X", "A", "E">>, <<[Issuer |-> "cn=none", CN |-> "EVIL*"]>>>>
    /\ rets = <<<<"QQ==">>>>

\* C17: matchWildcard is the case-insensitive matcher of the specification:
\* false for the empty pattern, true for "*", suffix for "*X", prefix for "X*",
\* substring for "*X*", equality otherwise.
C17_MatchWildcardIsReference ==
    (fn = "matchWildcard" /\ Len(rets) = 1) =>
        /\ rets[1] = WildcardMatches(args[1], args[2])
        /\ args[1] = "" => rets[1] = FALSE
        /\ args[1] = "*" => rets[1] = TRUE
        /\ args = <<"*.example.com", "mail.example.com">> => rets[1] = TRUE
        /\ args = <<"*example*", "xexampley">> => rets[1] = TRUE
        /\ args = <<"example.com", "example.com">> => rets[1] = TRUE
        /\ args = <<"example.com", "Example.COM">> => rets[1] = TRUE
        /\ args = <<"example.com", "mail.example.com">> => rets[1] = FALSE

\* a prefix pattern in upper case has matched a name in lower case
C17_Witness ==
    /\ fn = "matchWildcard"
    /\ args = <<"EVIL*", "evil.example.com">>
    /\ rets = <<TRUE>>

\* what goroutine t has done on conn
WroteEhlo(t) ==
    \E i \in 1..Len(conn[t]) : conn[t][i] = [Op |-> "write", Data |-> "EHLO certscan"]
WroteStartTLS(t) ==
    \E i \in 1..Len(conn[t]) : conn[t][i] = [Op |-> "write", Data |-> "STARTTLS"]
HandshakeStarted(t) ==
    \E i \in 1..Len(conn[t]) : conn[t][i].Op = "handshake"

\* the lines goroutine t has read in answer to EHLO: the reads that follow the
\* write of EHLO without a break
EhloReply(t) ==
    LET c == conn[t]
        sent == {i \in 1..Len(c) : c[i] = [Op |-> "write", Data |-> "EHLO certscan"]}
    IN  IF sent = {} THEN <<>>
        ELSE LET e == CHOOSE i \in sent : TRUE
                 n == Cardinality({j \in (e + 1)..Len(c) :
                                     \A k \in (e + 1)..j : c[k].Op = "read"})
             IN  [k \in 1..n |-> c[e + k].Data]

\* the reply to EHLO is through: its last line is no continuation line
EhloReplyEnded(t) ==
    /\ EhloReply(t) # <<>>
    /\ ~HasPrefix(EhloReply(t)[Len(EhloReply(t))], "250-")

NamesStartTLS(ls) == \E i \in 1..Len(ls) : Includes(Folded(ls[i]), "STARTTLS")

\* C18: when no line of the reply to EHLO has STARTTLS in it, in whatever
\* case, scanSMTPStartTLS ends with an error and no result; STARTTLS is not
\* written and no handshake is started.
C18_NoCapabilityNoStartTLS ==
    \A t \in Tasks :
        (WroteEhlo(t) /\ ~NamesStartTLS(EhloReply(t))) =>
            /\ ~WroteStartTLS(t)
            /\ ~HandshakeStarted(t)
            /\ handlerResults[t] = <<>>
            /\ EhloReplyEnded(t) =>
                   /\ taskPc[t] = "release"
                   /\ attempts[t] = <<[Family |-> "starttls", Succeeded |-> FALSE]>>

\* a reply of two lines without the capability has ended the attempt
C18_Witness ==
    \E t \in Tasks :
        /\ EhloReply(t) = <<"250-PIPELINING", "250 OK">>
        /\ taskPc[t] = "release"
        /\ ~WroteStartTLS(t)

\* the entry of conn that follows the write of STARTTLS, if there is one
AfterStartTLS(t) ==
    LET c == conn[t]
        w == {i \in 1..Len(c) : c[i] = [Op |-> "write", Data |-> "STARTTLS"]}
    IN  IF w = {} THEN <<>>
        ELSE LET i == CHOOSE j \in w : TRUE
             IN  IF i < Len(c) THEN <<c[i + 1]>> ELSE <<>>

\* C19: the TLS handshake of scanSMTPStartTLS is started only after a line
\* beginning with 220 was read in answer to STARTTLS; a failed read or another
\* line ends the attempt with an error, without result and without handshake.
C19_HandshakeOnlyAfter220 ==
    \A t \in Tasks :
        /\ HandshakeStarted(t) =>
               /\ AfterStartTLS(t) # <<>>
               /\ AfterStartTLS(t)[1].Op = "read"
               /\ StartsWith(AfterStartTLS(t)[1].Data, "220")
        /\ (/\ AfterStartTLS(t) # <<>>
            /\ ~(/\ AfterStartTLS(t)[1].Op = "read"
                 /\ StartsWith(AfterStartTLS(t)[1].Data, "220"))) =>
               /\ ~HandshakeStarted(t)
               /\ taskPc[t] = "release"
               /\ handlerResults[t] = <<>>
               /\ attempts[t] = <<[Family |-> "starttls", Succeeded |-> FALSE]>>

\* the peer answered STARTTLS with 454 and the attempt has ended
C19_Witness ==
    \E t \in Tasks :
        /\ AfterStartTLS(t) = <<[Op |-> "read", Data |-> "454 TLS not available"]>>
        /\ taskPc[t] = "release"

\* C20: STARTTLS is written only when the line that ends the reply to EHLO
\* begins with 250.
C20_StartTLSOnlyAfter250 ==
    \A t \in Tasks :
        WroteStartTLS(t) =>
            StartsWith(EhloReply(t)[Len(EhloReply(t))], "250")

\* the connections goroutine t has dialed in scanSMTPStartTLS
Dials(t) == Cardinality({i \in 1..Len(conn[t]) : conn[t][i].Op = "dial"})

\* C21: a STARTTLS attempt that fails, at whatever step, leaves no result,
\* sends nothing to the sink and is not made again: a goroutine dials at most
\* one connection and enters the dispatch at most once.
C21_FailedStartTLSAttemptIsFinal ==
    \A t \in Tasks :
        /\ Dials(t) <= 1
        /\ invoked[t] <= 1
        /\ (proto[t] = "smtp" /\ attempts[t] # <<>> /\ ~attempts[t][1].Succeeded) =>
               /\ Len(attempts[t]) = 1
               /\ handlerResults[t] = <<>>
               /\ sinkCalls[t] = <<>>
               /\ taskPc[t] = "release"

\* an attempt has failed at the handshake, after a 220 answer to STARTTLS
C21_Witness ==
    \E t \in Tasks :
        /\ proto[t] = "smtp"
        /\ HandshakeStarted(t)
        /\ attempts[t] = <<[Family |-> "starttls", Succeeded |-> FALSE]>>
        /\ taskPc[t] = "release"

\* C22: sendToWebhook ends the process exactly when the sink answers 403 and
\* no token is configured; after every other outcome it returns, the batch is
\* not sent again and the goroutine goes on.
C22_ExitOnlyOn403WithoutToken ==
    /\ mainPc = "exited" <=>
           (Config.Token = "" /\ \E t \in Tasks : sinkCalls[t] = <<"403">>)
    /\ \A t \in Tasks :
           /\ Len(sinkCalls[t]) <= 1
           /\ (sinkCalls[t] # <<>> /\ ~(sinkCalls[t] = <<"403">> /\ Config.Token = "")) =>
                  taskPc[t] = "release"

\* the sink answered 403 to an agent that has a token, and the goroutine has
\* gone on
C22_Witness ==
    /\ Config.Token = "token"
    /\ mainPc # "exited"
    /\ \E t \in Tasks : sinkCalls[t] = <<"403">> /\ taskPc[t] = "release"

\* C23: the goroutines of a call are independent: each enters the dispatch
\* once, for its own port, whatever the others ran into; the call returns only
\* when every port's handler has been invoked, and it gets nothing from them.
C23_PortTasksIndependent ==
    /\ \A t \in Tasks :
           /\ invoked[t] <= 1
           /\ Resolved(t) => (invoked[t] = 1 /\ taskPort[t] = ports[t])
    /\ mainPc = "returned" => \A t \in Tasks : invoked[t] = 1 /\ taskPort[t] = ports[t]
    /\ results = <<>>

\* the STARTTLS attempt on port 25 has failed and the handler of port 443 is
\* at work
C23_Witness ==
    /\ ports = <<25, 443>>
    /\ taskPc[1] = "release"
    /\ attempts[1] = <<[Family |-> "starttls", Succeeded |-> FALSE]>>
    /\ taskPort[2] = 443
    /\ taskPc[2] \in HandlerPcs

\* C24: results go to the sink per goroutine: a batch holds results of the
\* goroutine's port only and is sent while the call still waits for the
\* goroutine; the scheduler sends nothing after its wait.
C24_ResultsForwardedPerTask ==
    /\ mainPc # "webhook"
    /\ results = <<>>
    /\ \A t \in Tasks :
           /\ \A i \in 1..Len(SinkPayload(t)) : SinkPayload(t)[i].Port = ports[t]
           /\ taskPc[t] = "webhook" => (wg > 0 /\ mainPc # "returned")

\* the second of two goroutines sends a batch of two results while the first
\* has ended
C24_Witness ==
    /\ Len(ports) = 2
    /\ taskPc[1] = "done"
    /\ taskPc[2] = "webhook"
    /\ Len(handlerResults[2]) = 2

\* C27: scanSMTPStartTLS moves forward only: dial, greeting read, EHLO written,
\* reply read to its end, STARTTLS written, answer read, handshake; nothing is
\* written twice or out of turn, and there is a result only after the handshake.
C27_UpgraderMovesForward ==
    \A t \in Tasks :
        LET c == conn[t]
            ehlo == [Op |-> "write", Data |-> "EHLO certscan"]
            starttls == [Op |-> "write", Data |-> "STARTTLS"]
        IN  /\ \A i \in 1..Len(c) :
                  /\ (c[i].Op = "dial") <=> (i = 1)
                  /\ c[i].Op = "write" => c[i] \in {ehlo, starttls}
                  /\ c[i] = ehlo => (i = 3 /\ c[2].Op = "read")
                  /\ c[i] = starttls =>
                         /\ i >= 5
                         /\ c[3] = ehlo
                         /\ \A k \in 4..(i - 1) : c[k].Op = "read"
                         /\ ~StartsWith(c[i - 1].Data, "250-")
                  /\ c[i].Op = "handshake" =>
                         (i = Len(c) /\ c[i - 1].Op = "read" /\ c[i - 2] = starttls)
                  /\ c[i].Op = "read error" => i = Len(c)
            /\ (proto[t] = "smtp" /\ handlerResults[t] # <<>>) =>
                   /\ HandshakeStarted(t)
                   /\ taskPc[t] \in {"webhook", "release"}

\* an attempt has gone through all its steps and has its result
C27_Witness ==
    \E t \in Tasks :
        /\ proto[t] = "smtp"
        /\ Len(conn[t]) = 8
        /\ HandshakeStarted(t)
        /\ handlerResults[t] # <<>>

\* what follows the reply to EHLO on conn, if anything does
AfterEhloReply(t) ==
    LET c == conn[t]
        e == CHOOSE i \in 1..Len(c) : c[i] = [Op |-> "write", Data |-> "EHLO certscan"]
        n == e + Len(EhloReply(t))
    IN  IF n < Len(c) THEN <<c[n + 1]>> ELSE <<>>

\* C28: the EHLO loop reads up to the first line that does not begin with
\* "250-" and no further; the capability scan covers every line read, the last
\* one included; a read that fails before such a line ends the attempt.
C28_EhloReplyReadToTerminator ==
    \A t \in Tasks :
        WroteEhlo(t) =>
            LET r == EhloReply(t)
            IN  /\ \A i \in 1..(Len(r) - 1) : StartsWith(r[i], "250-")
                /\ WroteStartTLS(t) =>
                       /\ EhloReplyEnded(t)
                       /\ AfterEhloReply(t) = <<[Op |-> "write", Data |-> "STARTTLS"]>>
                /\ EhloReplyEnded(t) => (WroteStartTLS(t) <=> NamesStartTLS(r))
                /\ (~EhloReplyEnded(t) /\ AfterEhloReply(t) # <<>>) =>
                       /\ AfterEhloReply(t)[1].Op = "read error"
                       /\ taskPc[t] = "release"
                       /\ attempts[t] = <<[Family |-> "starttls", Succeeded |-> FALSE]>>

\* the capability was named by the line that ended the reply, and STARTTLS
\* was written
C28_Witness ==
    \E t \in Tasks :
        /\ EhloReply(t) = <<"250-PIPELINING", "250 starttls">>
        /\ WroteStartTLS(t)

\* C29: a result of the TLS path carries the family of the probe that gave it,
\* ecdsa or rsa, and has certificates when the probe returns it; a result of the
\* STARTTLS path carries no handshake type.
C29_HandshakeTypeOfResults ==
    \A t \in Tasks :
        \A i \in 1..Len(handlerResults[t]) :
            LET r == handlerResults[t][i]
            IN  /\ proto[t] \in {"http1", "h2", "h3"} =>
                       /\ r.HandshakeType \in {"ecdsa", "rsa"}
                       /\ r.HandshakeType = SucceededFamilies(attempts[t])[i]
                       /\ taskPc[t] \in {"rsa_dial", "rsa_hs"} => r.Certificates # <<>>
                /\ proto[t] = "smtp" =>
                       /\ r.HandshakeType = ""
                       /\ r.Certificates # <<>>

\* the ECDSA probe has returned its result and the RSA probe is under way
C29_Witness ==
    \E t \in Tasks :
        /\ taskPc[t] = "rsa_hs"
        /\ Len(handlerResults[t]) = 1
        /\ handlerResults[t][1].HandshakeType = "ecdsa"
        /\ handlerResults[t][1].Certificates = <<"RQ==">>

\* the goroutines inside sendToWebhook
Sending == {t \in Tasks : taskPc[t] = "webhook"}

\* C30: a goroutine inside sendToWebhook holds an admission slot, and gives it
\* back only afterwards: with limit C at most C sink calls are under way.
C30_SinkCallsHoldSlot ==
    /\ Sending \subseteq Holders
    /\ Cardinality(Sending) <= sem
    /\ Config.ConcurrencyLimit >= 1 => Cardinality(Sending) <= Config.ConcurrencyLimit
    /\ \A t \in Tasks : sinkCalls[t] # <<>> => t \in Holders

\* two goroutines are inside sendToWebhook under limit 2
C30_Witness ==
    /\ Config.ConcurrencyLimit = 2
    /\ Cardinality(Sending) = 2

\* C25: nothing that exclude_list names, as an entry or inside a network, is
\* scanned: neither the address nor the host name of any call into the scanner
\* is excluded.
C25_ExcludedNeverScanned ==
    \A i \in 1..Len(scans) :
        /\ ~IsExcluded(scans[i].Ip, cfg.ExcludeList)
        /\ ~IsExcluded(scans[i].Hostname, cfg.ExcludeList)

\* C26: every call into the scanner made for an include_list entry carries
\* the protocol of that entry.
C26_EntryProtocolHandedOn ==
    \A i \in 1..Len(scans) :
        scans[i].Entry > 0 => scans[i].Protocol = cfg.IncludeList[scans[i].Entry].Protocol

\* the goroutines of a call without protocol whose port the dispatcher does
\* not name
Unnamed == {t \in Tasks : protocol = "" /\ taskPort[t] \notin webPorts \cup smtpPorts}

\* C31: on a port that is neither an SMTP port nor a web port, with no
\* protocol configured, the goroutine finds no handler: it keeps the empty
\* proto, never dials, has no result and calls the sink never; it ends.
C31_UnnamedPortIsNotScanned ==
    \A t \in Unnamed :
        Resolved(t) =>
            /\ proto[t] = ""
            /\ proto[t] \notin DOMAIN protocolHandlers
            /\ taskPc[t] \in {"release", "wgdone", "done"}
            /\ attempts[t] = <<>>
            /\ conn[t] = <<>>
            /\ handlerResults[t] = <<>>
            /\ sinkCalls[t] = <<>>

\* the call for port 993 without protocol has returned
C31_Witness ==
    /\ ports = <<993>>
    /\ protocol = ""
    /\ Unnamed = {1}
    /\ invoked = <<1>>
    /\ mainPc = "returned"

\* C32: ScanAndSend calls ScanAndSendWithProtocol once per port, in the order
\* of the list, with that port alone; no goroutine of the call before is still
\* running when a call is made, and a call has one goroutine at most.
C32_LegacyScansOnePortAtATime ==
    /\ Len(legacyCalls) = legacyAt - 1
    /\ \A i \in 1..Len(legacyCalls) :
           /\ legacyCalls[i].Ports = <<legacyPorts[i]>>
           /\ legacyCalls[i].InFlight = 0
    /\ legacyCalls # <<>> =>
           /\ ports = <<legacyPorts[legacyAt - 1]>>
           /\ Cardinality({t \in Tasks : taskPc[t] \notin {"idle", "done"}}) <= 1

\* under limit 2 the second port's goroutine is in its handler, the first
\* call having returned
C32_Witness ==
    /\ Config.ConcurrencyLimit = 2
    /\ Len(legacyPorts) = 2
    /\ Len(legacyCalls) = 2
    /\ legacyCalls[2].InFlight = 0
    /\ \E t \in Tasks : taskPc[t] \in HandlerPcs

\* C33: in one scan cycle no address is scanned twice: no two calls into the
\* scanner made in the cycle have the same address and the same ports.
C33_NoAddressScannedTwice ==
    \A i, j \in 1..Len(scans) :
        (scans[i].Ip = scans[j].Ip /\ scans[i].Ports = scans[j].Ports) => i = j

\* the pattern has a star, and none as its first or last character
StarInsideOnly(pattern) ==
    /\ \E i \in 2..(Len(pattern) - 1) : SubSeq(pattern, i, i) = "*"
    /\ SubSeq(pattern, 1, 1) # "*"
    /\ SubSeq(pattern, Len(pattern), Len(pattern)) # "*"

\* C34: matchWildcard reads a star as a wildcard only at the ends of the
\* pattern: a pattern with stars inside only matches exactly the strings that
\* are, lower-cased, the lower-cased pattern, and "**" matches every string.
C34_InnerStarIsLiteral ==
    (fn = "matchWildcard" /\ Len(rets) = 1) =>
        /\ StarInsideOnly(args[1]) => (rets[1] <=> Folded(args[2]) = Folded(args[1]))
        /\ args[1] = "**" => rets[1] = TRUE
        /\ args = <<"a*.com", "a.example.com">> => rets[1] = FALSE

\* the pattern "a*.com" has been tried on a name that a wildcard would match
C34_Witness ==
    /\ fn = "matchWildcard"
    /\ args = <<"a*.com", "a.example.com">>
    /\ rets = <<FALSE>>

====
